---- MODULE Spec2Model ----
(***************************************************************************)
(* kubecheck: static validation of Kubernetes manifests against a          *)
(* declarative rule set.  Model of the Go rule engine (RuleEngine,         *)
(* condition functions, container extraction), the Reporter and the main   *)
(* validation loop.                                                        *)
(*                                                                         *)
(* Representation of Go values                                             *)
(*   string        a sequence of tokens; the token ":" is the colon        *)
(*                 character and every other token is a non-empty chunk of *)
(*                 text without a colon.  The Go string is the             *)
(*                 concatenation of the tokens, "" is <<>>.  Inputs are    *)
(*                 drawn in canonical form (no two adjacent chunks), so    *)
(*                 equality of sequences is equality of strings.           *)
(*   *T            <<>> for nil, <<v>> for a pointer to v.                 *)
(*   interface{}   a tagged record [t |-> tag, v |-> value] with tag one   *)
(*                 of "nil", "str", "int", "bool", "seq", "map".           *)
(***************************************************************************)
EXTENDS Integers, Sequences, FiniteSets, TLC

VARIABLES
    call,        \* harness: the arguments of the function under check
    ret,         \* harness: [done |-> FALSE] or [done |-> TRUE, ...results]
    re,          \* the RuleEngine: [config |-> sequence of Rule]
    firstCall,   \* first EvaluateResource call made on re: <<>> or <<[resource, violations]>>
    lastCall,    \* latest EvaluateResource call made on re
    interleaved, \* a call on another resource was made after the first call
    evals,       \* EvaluateResource calls in progress on re, one record per goroutine
    reporter,    \* the Reporter struct
    pc,          \* position of main
    nFiles,      \* len(files) in main
    fileIdx,     \* index of the file the outer loop of main is at
    resources,   \* resources parsed from the current file
    docIdx,      \* index of the resource the inner loop of main is at
    maxSeverity, \* main's maxSeverity
    exitCode,    \* argument of os.Exit, -1 while running
    runLog       \* what the run did: parse failures, per-document results, summary printed

vars == <<call, ret, re, firstCall, lastCall, interleaved, evals, reporter, pc, nFiles,
          fileIdx, resources, docIdx, maxSeverity, exitCode, runLog>>

-----------------------------------------------------------------------------
(* Bounds of the model *)

MaxImageTokens == 5
MaxTagTokens == 1
MaxParamTokens == 3
MaxConds == 3
MaxContainers == 2
MaxRules == 2
MaxViolations == 3
MaxReports == 2
MaxFiles == 2
MaxDocs == 2

-----------------------------------------------------------------------------
(* Program constants *)

ExitOK == 0
ExitWarn == 1
ExitError == 2

-----------------------------------------------------------------------------
(* Go strings *)

Colon == ":"

\* The string literal with text s (s holds no colon).
Lit(s) == IF s = "" THEN <<>> ELSE <<s>>

SeverityOK == Lit("OK")
SeverityWarn == Lit("WARN")
SeverityError == Lit("ERROR")

\* Canonical strings over a token set, of at most n tokens.
IsCanonical(s) == \A i \in 1..(Len(s) - 1) : s[i] = Colon \/ s[i + 1] = Colon

RECURSIVE SeqsUpTo(_, _)
SeqsUpTo(S, n) ==
    IF n = 0 THEN {<<>>}
    ELSE LET shorter == SeqsUpTo(S, n - 1)
         IN  shorter \cup {Append(s, x) : s \in {t \in shorter : Len(t) = n - 1}, x \in S}

GoStrings(tokens, n) == {s \in SeqsUpTo(tokens, n) : IsCanonical(s)}

\* strings.Contains(s, ":")
ContainsColon(s) == \E i \in 1..Len(s) : s[i] = Colon

\* strings.Split(s, ":"): the texts between the colons, one more than there
\* are colons.
RECURSIVE SplitFrom(_, _, _, _)
SplitFrom(s, i, cur, acc) ==
    IF i > Len(s) THEN Append(acc, cur)
    ELSE IF s[i] = Colon THEN SplitFrom(s, i + 1, <<>>, Append(acc, cur))
    ELSE SplitFrom(s, i + 1, Append(cur, s[i]), acc)

Split(s) == SplitFrom(s, 1, <<>>, <<>>)

RECURSIVE Flatten(_)
Flatten(ss) == IF ss = <<>> THEN <<>> ELSE Head(ss) \o Flatten(Tail(ss))

\* strings.ReplaceAll(s, "{container}", name); the placeholder is one token.
Placeholder == "{container}"

\* Variant: only the first occurrence is replaced.
ReplaceFirst(s, name) ==
    LET occurrences == {i \in 1..Len(s) : s[i] = Placeholder}
    IN  Flatten([i \in 1..Len(s) |->
                    IF i \in occurrences /\ \A k \in occurrences : i <= k
                    THEN name ELSE <<s[i]>>])

ReplaceAll(s, name) ==
    Flatten([i \in 1..Len(s) |-> IF s[i] = Placeholder THEN name ELSE <<s[i]>>])

-----------------------------------------------------------------------------
(* Pointers *)

NilPtr == <<>>
Ptr(v) == <<v>>
Deref(p) == p[1]

-----------------------------------------------------------------------------
(* Condition evaluation functions *)

imageTagEqualsAnyParts(image, tag) ==
    IF ~ContainsColon(image) THEN tag = Lit("latest")
    ELSE LET parts == Split(image)
         IN  Len(parts) >= 2 /\ parts[Len(parts)] = tag

imageTagEquals(image, tag) ==
    IF ~ContainsColon(image) THEN tag = Lit("latest")
    ELSE LET parts == Split(image)
         IN  Len(parts) = 2 /\ parts[2] = tag

imageTagMissing(image) == ~ContainsColon(image)

\* Variant: the CPU request is looked for under the limits.
missingCPURequestsFromLimits(c) ==
    \/ c.Resources = NilPtr
    \/ Deref(c.Resources).Limits = NilPtr
    \/ Deref(Deref(c.Resources).Limits).CPU = <<>>

missingCPURequests(c) ==
    \/ c.Resources = NilPtr
    \/ Deref(c.Resources).Requests = NilPtr
    \/ Deref(Deref(c.Resources).Requests).CPU = <<>>

missingMemoryRequests(c) ==
    \/ c.Resources = NilPtr
    \/ Deref(c.Resources).Requests = NilPtr
    \/ Deref(Deref(c.Resources).Requests).Memory = <<>>

missingCPULimits(c) ==
    \/ c.Resources = NilPtr
    \/ Deref(c.Resources).Limits = NilPtr
    \/ Deref(Deref(c.Resources).Limits).CPU = <<>>

missingMemoryLimits(c) ==
    \/ c.Resources = NilPtr
    \/ Deref(c.Resources).Limits = NilPtr
    \/ Deref(Deref(c.Resources).Limits).Memory = <<>>

missingSecurityContext(c) == c.SecurityContext = NilPtr

\* Variant: true whenever runAsNonRoot is not set to true.
runAsNonRootNotTrue(c) ==
    /\ c.SecurityContext # NilPtr
    /\ \/ Deref(c.SecurityContext).RunAsNonRoot = NilPtr
       \/ ~Deref(Deref(c.SecurityContext).RunAsNonRoot)

runAsNonRootFalse(c) ==
    /\ c.SecurityContext # NilPtr
    /\ Deref(c.SecurityContext).RunAsNonRoot # NilPtr
    /\ ~Deref(Deref(c.SecurityContext).RunAsNonRoot)

\* Variant: a runAsUser that is not set counts as user 0.
runAsUserZeroOrUnset(c) ==
    /\ c.SecurityContext # NilPtr
    /\ \/ Deref(c.SecurityContext).RunAsUser = NilPtr
       \/ Deref(Deref(c.SecurityContext).RunAsUser) = 0

runAsUserZero(c) ==
    /\ c.SecurityContext # NilPtr
    /\ Deref(c.SecurityContext).RunAsUser # NilPtr
    /\ Deref(Deref(c.SecurityContext).RunAsUser) = 0

-----------------------------------------------------------------------------
(* RuleEngine.checkCondition *)

\* The locals conditionType and conditionValue of checkCondition.
ParseCondition(condition) ==
    LET parts == Split(condition)
    IN  [conditionType  |-> parts[1],
         conditionValue |-> IF Len(parts) > 1 THEN parts[2] ELSE <<>>]

\* Variant: an identifier that is not recognized counts as a condition that
\* holds.
checkConditionUnknownHolds(condition, container) ==
    LET p == ParseCondition(condition)
        conditionType == p.conditionType
        conditionValue == p.conditionValue
    IN  CASE conditionType = Lit("image_tag_equals") ->
                 imageTagEquals(container.Image, conditionValue)
          [] conditionType = Lit("image_tag_missing") ->
                 imageTagMissing(container.Image)
          [] conditionType = Lit("missing_cpu_requests") ->
                 missingCPURequests(container)
          [] conditionType = Lit("missing_memory_requests") ->
                 missingMemoryRequests(container)
          [] conditionType = Lit("missing_cpu_limits") ->
                 missingCPULimits(container)
          [] conditionType = Lit("missing_memory_limits") ->
                 missingMemoryLimits(container)
          [] conditionType = Lit("missing_security_context") ->
                 missingSecurityContext(container)
          [] conditionType = Lit("run_as_non_root_false") ->
                 runAsNonRootFalse(container)
          [] conditionType = Lit("run_as_user_zero") ->
                 runAsUserZero(container)
          [] OTHER -> TRUE

checkCondition(condition, container) ==
    LET p == ParseCondition(condition)
        conditionType == p.conditionType
        conditionValue == p.conditionValue
    IN  CASE conditionType = Lit("image_tag_equals") ->
                 imageTagEquals(container.Image, conditionValue)
          [] conditionType = Lit("image_tag_missing") ->
                 imageTagMissing(container.Image)
          [] conditionType = Lit("missing_cpu_requests") ->
                 missingCPURequests(container)
          [] conditionType = Lit("missing_memory_requests") ->
                 missingMemoryRequests(container)
          [] conditionType = Lit("missing_cpu_limits") ->
                 missingCPULimits(container)
          [] conditionType = Lit("missing_memory_limits") ->
                 missingMemoryLimits(container)
          [] conditionType = Lit("missing_security_context") ->
                 missingSecurityContext(container)
          [] conditionType = Lit("run_as_non_root_false") ->
                 runAsNonRootFalse(container)
          [] conditionType = Lit("run_as_user_zero") ->
                 runAsUserZero(container)
          [] OTHER -> FALSE

-----------------------------------------------------------------------------
(* RuleEngine.evaluateRule *)

\* Variant: the message template is copied without substitution.
ViolationUnsubstituted(rule, container) ==
    [Severity |-> rule.Severity,
     Message  |-> rule.Message,
     Rule     |-> rule.Name]

Violation(rule, container) ==
    [Severity |-> rule.Severity,
     Message  |-> ReplaceAll(rule.Message, container.Name),
     Rule     |-> rule.Name]

\* The loop over rule.Conditions from condition i on: the violations it
\* appends and the number of conditions it has checked when it ends.
RECURSIVE evaluateRuleLoop(_, _, _)
evaluateRuleLoop(rule, container, i) ==
    IF i > Len(rule.Conditions) THEN [violations |-> <<>>, checked |-> i - 1]
    ELSE IF checkCondition(rule.Conditions[i], container)
         THEN [violations |-> <<Violation(rule, container)>>, checked |-> i]  \* break
         ELSE evaluateRuleLoop(rule, container, i + 1)

\* The same loop without the break.
RECURSIVE evaluateRuleLoopNoBreak(_, _, _)
evaluateRuleLoopNoBreak(rule, container, i) ==
    IF i > Len(rule.Conditions) THEN [violations |-> <<>>, checked |-> i - 1]
    ELSE LET rest == evaluateRuleLoopNoBreak(rule, container, i + 1)
         IN  IF checkCondition(rule.Conditions[i], container)
             THEN [violations |-> <<Violation(rule, container)>> \o rest.violations,
                   checked    |-> rest.checked]
             ELSE rest

evaluateRuleTraceNoBreak(rule, container) == evaluateRuleLoopNoBreak(rule, container, 1)

\* evaluateRule: the violations returned, and how far the loop went.
evaluateRuleTrace(rule, container) == evaluateRuleLoop(rule, container, 1)

evaluateRule(rule, container) == evaluateRuleTrace(rule, container).violations

-----------------------------------------------------------------------------
(* Decoded YAML values: interface{} *)

YNil == [t |-> "nil", v |-> 0]
YStr(s) == [t |-> "str", v |-> s]
YInt(i) == [t |-> "int", v |-> i]
YBool(b) == [t |-> "bool", v |-> b]
YSeq(s) == [t |-> "seq", v |-> s]
YMap(m) == [t |-> "map", v |-> m]

EmptyMap == [k \in {} |-> YNil]

\* m[key] on a map[string]interface{}: nil when the key is absent.
MapGet(m, key) == IF key \in DOMAIN m THEN m[key] ELSE YNil

\* Variant: a number is rendered as text.
getStringValueFormatted(m, key) ==
    IF MapGet(m, key).t = "str" THEN MapGet(m, key).v
    ELSE IF MapGet(m, key).t = "int" THEN <<ToString(MapGet(m, key).v)>>
    ELSE <<>>

\* getStringValue
getStringValue(m, key) ==
    IF MapGet(m, key).t = "str" THEN MapGet(m, key).v ELSE <<>>

\* parseResources
parseResourceSpec(specMap) ==
    [CPU    |-> getStringValue(specMap, "cpu"),
     Memory |-> getStringValue(specMap, "memory")]

parseResources(resourcesMap) ==
    Ptr([Requests |-> IF MapGet(resourcesMap, "requests").t = "map"
                      THEN Ptr(parseResourceSpec(MapGet(resourcesMap, "requests").v))
                      ELSE NilPtr,
         Limits   |-> IF MapGet(resourcesMap, "limits").t = "map"
                      THEN Ptr(parseResourceSpec(MapGet(resourcesMap, "limits").v))
                      ELSE NilPtr])

\* parseSecurityContext
parseSecurityContext(securityMap) ==
    Ptr([RunAsNonRoot |-> IF MapGet(securityMap, "runAsNonRoot").t = "bool"
                          THEN Ptr(MapGet(securityMap, "runAsNonRoot").v)
                          ELSE NilPtr,
         RunAsUser    |-> IF MapGet(securityMap, "runAsUser").t = "int"
                          THEN Ptr(MapGet(securityMap, "runAsUser").v)
                          ELSE NilPtr])

\* The Container built from one element of the list that is a map.
parseContainer(containerMap) ==
    [Name            |-> getStringValue(containerMap, "name"),
     Image           |-> getStringValue(containerMap, "image"),
     Resources       |-> IF MapGet(containerMap, "resources").t = "map"
                         THEN parseResources(MapGet(containerMap, "resources").v)
                         ELSE NilPtr,
     SecurityContext |-> IF MapGet(containerMap, "securityContext").t = "map"
                         THEN parseSecurityContext(MapGet(containerMap, "securityContext").v)
                         ELSE NilPtr]

\* parseContainers: elements that are not maps are skipped.
RECURSIVE parseContainers(_)
parseContainers(containerList) ==
    IF containerList = <<>> THEN <<>>
    ELSE LET c == Head(containerList)
         IN  (IF c.t = "map" THEN <<parseContainer(c.v)>> ELSE <<>>)
             \o parseContainers(Tail(containerList))

\* spec.template.spec.containers of a non-nil spec, nil when the path breaks.
TemplateContainers(spec) ==
    LET template == MapGet(spec, "template")
    IN  IF template.t = "map" /\ MapGet(template.v, "spec").t = "map"
        THEN MapGet(MapGet(template.v, "spec").v, "containers")
        ELSE YNil

\* Variant: an empty spec.template.spec.containers falls through to
\* spec.containers.
extractContainersNonEmptyFirst(resource) ==
    IF resource.Spec.t = "nil" THEN <<>>
    ELSE LET spec == resource.Spec.v
         IN  IF TemplateContainers(spec).t = "seq" /\ TemplateContainers(spec).v # <<>>
             THEN parseContainers(TemplateContainers(spec).v)
             ELSE IF MapGet(spec, "containers").t = "seq"
                  THEN parseContainers(MapGet(spec, "containers").v)
                  ELSE <<>>

\* Variant: spec.containers is read only when spec has no template key.
extractContainersTemplateKeyDecides(resource) ==
    IF resource.Spec.t = "nil" THEN <<>>
    ELSE LET spec == resource.Spec.v
         IN  IF TemplateContainers(spec).t = "seq"
             THEN parseContainers(TemplateContainers(spec).v)
             ELSE IF "template" \notin DOMAIN spec /\ MapGet(spec, "containers").t = "seq"
                  THEN parseContainers(MapGet(spec, "containers").v)
                  ELSE <<>>

\* extractContainersFromResource
extractContainersFromResource(resource) ==
    IF resource.Spec.t = "nil" THEN <<>>
    ELSE LET spec == resource.Spec.v
         IN  IF TemplateContainers(spec).t = "seq"
             THEN parseContainers(TemplateContainers(spec).v)
             ELSE IF MapGet(spec, "containers").t = "seq"
                  THEN parseContainers(MapGet(spec, "containers").v)
                  ELSE <<>>

-----------------------------------------------------------------------------
(* RuleEngine.EvaluateResource *)

\* The inner loop: the violations of one rule over the containers in order.
RECURSIVE evaluateContainers(_, _, _)
evaluateContainers(rule, containers, j) ==
    IF j > Len(containers) THEN <<>>
    ELSE evaluateRule(rule, containers[j]) \o evaluateContainers(rule, containers, j + 1)

\* The outer loop: the rules in order.
RECURSIVE evaluateRules(_, _, _)
evaluateRules(rules, containers, i) ==
    IF i > Len(rules) THEN <<>>
    ELSE evaluateContainers(rules[i], containers, 1) \o evaluateRules(rules, containers, i + 1)

\* Variant with the loops nested the other way round: containers outside.
RECURSIVE evaluateContainerMajor(_, _, _)
evaluateContainerMajor(rules, containers, j) ==
    IF j > Len(containers) THEN <<>>
    ELSE evaluateRules(rules, <<containers[j]>>, 1)
         \o evaluateContainerMajor(rules, containers, j + 1)

EvaluateResourceContainerMajor(engine, resource) ==
    evaluateContainerMajor(engine.config, extractContainersFromResource(resource), 1)

\* Variant: an engine without rules reports every container as not checked.
EvaluateResourceFlagsUnchecked(engine, resource) ==
    LET containers == extractContainersFromResource(resource)
    IN  IF engine.config = <<>>
        THEN [j \in 1..Len(containers) |->
                 [Severity |-> SeverityWarn,
                  Message  |-> <<"Container '">> \o containers[j].Name \o <<"' not checked">>,
                  Rule     |-> Lit("no-rules")]]
        ELSE evaluateRules(engine.config, containers, 1)

EvaluateResource(engine, resource) ==
    evaluateRules(engine.config, extractContainersFromResource(resource), 1)

NewRuleEngine(config) == [config |-> config]

-----------------------------------------------------------------------------
(* GetDefaultConfig *)

GetDefaultConfig ==
    <<[Name        |-> Lit("no-latest-image"),
       Description |-> Lit("Disallow latest image tags"),
       Severity    |-> Lit("ERROR"),
       Type        |-> Lit("image"),
       Conditions  |-> <<<<"image_tag_equals", Colon, "latest">>, Lit("image_tag_missing")>>,
       Message     |-> <<"Container '", Placeholder, "' uses 'latest' image tag">>,
       Help        |-> Lit("use a specific version or digest")],
      [Name        |-> Lit("require-resource-requests"),
       Description |-> Lit("Require CPU and memory requests"),
       Severity    |-> Lit("WARN"),
       Type        |-> Lit("resources"),
       Conditions  |-> <<Lit("missing_cpu_requests"), Lit("missing_memory_requests")>>,
       Message     |-> <<"Container '", Placeholder, "' missing resource requests">>,
       Help        |-> Lit("set requests.cpu and requests.memory")],
      [Name        |-> Lit("require-resource-limits"),
       Description |-> Lit("Require CPU and memory limits"),
       Severity    |-> Lit("WARN"),
       Type        |-> Lit("resources"),
       Conditions  |-> <<Lit("missing_cpu_limits"), Lit("missing_memory_limits")>>,
       Message     |-> <<"Container '", Placeholder, "' missing resource limits">>,
       Help        |-> Lit("set limits.cpu and limits.memory")],
      [Name        |-> Lit("no-root-containers"),
       Description |-> Lit("Containers must not run as root"),
       Severity    |-> Lit("ERROR"),
       Type        |-> Lit("security"),
       Conditions  |-> <<Lit("missing_security_context"), Lit("run_as_non_root_false"),
                         Lit("run_as_user_zero")>>,
       Message     |-> <<"Container '", Placeholder, "' running as root or missing securityContext">>,
       Help        |-> <<"set runAsNonRoot", Colon, " true and runAsUser to non-zero value">>]>>

-----------------------------------------------------------------------------
(* Typed values the harness draws from *)

ImageTokens == {"app", "latest", Colon}

Images == GoStrings(ImageTokens, MaxImageTokens)

Tags == GoStrings(ImageTokens, MaxTagTokens) \cup {<<"app", Colon, "latest">>}

Quantities == {<<>>, Lit("100m")}

ResourceSpecs == [CPU : Quantities, Memory : Quantities]

ResourceSpecPtrs == {NilPtr} \cup {Ptr(s) : s \in ResourceSpecs}

ResourcesPtrs ==
    {NilPtr} \cup {Ptr([Requests |-> rq, Limits |-> lm]) :
                       rq \in ResourceSpecPtrs, lm \in ResourceSpecPtrs}

SecurityContextPtrs ==
    {NilPtr} \cup {Ptr([RunAsNonRoot |-> a, RunAsUser |-> u]) :
                       a \in {NilPtr, Ptr(TRUE), Ptr(FALSE)},
                       u \in {NilPtr, Ptr(0), Ptr(1000)}}

FullResources ==
    Ptr([Requests |-> Ptr([CPU |-> Lit("100m"), Memory |-> Lit("100m")]),
         Limits   |-> Ptr([CPU |-> Lit("100m"), Memory |-> Lit("100m")])])

\* A container no built-in condition is true of.
CleanContainer ==
    [Name            |-> Lit("web"),
     Image           |-> <<"app", Colon, "v1">>,
     Resources       |-> FullResources,
     SecurityContext |-> Ptr([RunAsNonRoot |-> Ptr(TRUE), RunAsUser |-> NilPtr])]

\* Containers that differ from CleanContainer in one field.
OneFieldContainers ==
    {[CleanContainer EXCEPT !.Image = im] : im \in Images}
    \cup {[CleanContainer EXCEPT !.Resources = r] : r \in ResourcesPtrs}
    \cup {[CleanContainer EXCEPT !.SecurityContext = sc] : sc \in SecurityContextPtrs}

ConditionIds ==
    {Lit("image_tag_equals"), Lit("image_tag_missing"),
     Lit("missing_cpu_requests"), Lit("missing_memory_requests"),
     Lit("missing_cpu_limits"), Lit("missing_memory_limits"),
     Lit("missing_security_context"), Lit("run_as_non_root_false"),
     Lit("run_as_user_zero"), Lit("not_a_condition"), Lit("")}

\* Nothing, or a colon followed by a parameter text.
ParamSuffixes ==
    {<<>>} \cup {<<Colon>> \o p : p \in GoStrings(ImageTokens, MaxParamTokens)}

ConditionStrings == {id \o sfx : id \in ConditionIds, sfx \in ParamSuffixes}

\* Conditions the rules of the harness are built from.
RuleConditions ==
    {<<"image_tag_equals", Colon, "latest">>, Lit("image_tag_missing"),
     Lit("missing_cpu_requests"), Lit("missing_security_context"),
     Lit("run_as_user_zero"), Lit("not_a_condition")}

MkRule(name, severity, conditions, message) ==
    [Name        |-> Lit(name),
     Description |-> <<>>,
     Severity    |-> severity,
     Type        |-> <<>>,
     Conditions  |-> conditions,
     Message     |-> message,
     Help        |-> <<>>]

MessageTemplate == <<"Container '", Placeholder, "' violates policy">>

\* Message templates with one, two and no occurrence of the placeholder.
MessageTemplates ==
    {MessageTemplate,
     <<Placeholder, " must not share a volume with ", Placeholder, " (sidecar)">>,
     <<"Policy violated">>}

HarnessRules ==
    {MkRule("r", sev, conds, msg) :
         sev \in {SeverityError, SeverityWarn},
         msg \in MessageTemplates,
         conds \in SeqsUpTo(RuleConditions, MaxConds)}

HarnessContainers ==
    {CleanContainer,
     [CleanContainer EXCEPT !.Image = Lit("app")],
     [CleanContainer EXCEPT !.Image = <<"app", Colon, "latest">>],
     [CleanContainer EXCEPT !.Image = <<"app", Colon, "latest">>, !.Resources = NilPtr],
     [CleanContainer EXCEPT !.Resources = NilPtr, !.SecurityContext = NilPtr],
     [CleanContainer EXCEPT !.Name = <<>>, !.Image = Lit("app"),
                            !.Resources = NilPtr, !.SecurityContext = NilPtr],
     [CleanContainer EXCEPT !.SecurityContext =
          Ptr([RunAsNonRoot |-> Ptr(TRUE), RunAsUser |-> Ptr(0)])],
     [CleanContainer EXCEPT !.SecurityContext =
          Ptr([RunAsNonRoot |-> Ptr(FALSE), RunAsUser |-> Ptr(0)])]}

-----------------------------------------------------------------------------
(* Reporter *)

NewReporter(verbose) ==
    [verbose         |-> verbose,
     totalFiles      |-> 0,
     okFiles         |-> 0,
     warnFiles       |-> 0,
     errorFiles      |-> 0,
     totalViolations |-> 0,
     isDirectory     |-> FALSE]

CountSeverity(violations, severity) ==
    Cardinality({i \in 1..Len(violations) : violations[i].Severity = severity})

\* Variant: the severity of the first violation decides.
ReportViolationsFirstDecides(r, violations) ==
    IF Len(violations) = 0
    THEN [reporter |-> [r EXCEPT !.totalFiles = @ + 1, !.okFiles = @ + 1],
          severity |-> ExitOK]
    ELSE LET isError == violations[1].Severity = SeverityError
             isWarn == violations[1].Severity = SeverityWarn
         IN  [reporter |-> [r EXCEPT !.totalFiles = @ + 1,
                                     !.totalViolations = @ + Len(violations),
                                     !.errorFiles = IF isError THEN @ + 1 ELSE @,
                                     !.warnFiles = IF ~isError /\ isWarn THEN @ + 1 ELSE @],
              severity |-> IF isError THEN ExitError
                           ELSE IF isWarn THEN ExitWarn ELSE ExitOK]

\* Reporter.ReportViolations: the reporter after the call and the value
\* returned.  What it prints is left out.
ReportViolations(r, violations) ==
    IF Len(violations) = 0
    THEN [reporter |-> [r EXCEPT !.totalFiles = @ + 1, !.okFiles = @ + 1],
          severity |-> ExitOK]
    ELSE LET errorCount == CountSeverity(violations, SeverityError)
             warnCount == CountSeverity(violations, SeverityWarn)
         IN  [reporter |-> [r EXCEPT !.totalFiles = @ + 1,
                                     !.totalViolations = @ + Len(violations),
                                     !.errorFiles = IF errorCount > 0 THEN @ + 1 ELSE @,
                                     !.warnFiles = IF errorCount = 0 /\ warnCount > 0
                                                   THEN @ + 1 ELSE @],
              severity |-> IF errorCount > 0 THEN ExitError
                           ELSE IF warnCount > 0 THEN ExitWarn ELSE ExitOK]

\* Reporter.SetDirectoryMode
SetDirectoryMode(r, enabled) == [r EXCEPT !.isDirectory = enabled]

\* Variant: the status line looks at the warnings first.
PrintSummaryWarnFirst(r) ==
    IF r.totalFiles = 0 THEN <<>>
    ELSE IF r.isDirectory
         THEN <<[mode         |-> "directory",
                 filesChecked |-> r.totalFiles,
                 okFiles      |-> r.okFiles,
                 warnFiles    |-> r.warnFiles,
                 errorFiles   |-> r.errorFiles,
                 exitCode     |-> IF r.warnFiles > 0 THEN 1
                                  ELSE IF r.errorFiles > 0 THEN 2 ELSE 0]>>
         ELSE <<[mode         |-> "file",
                 filesChecked |-> r.totalFiles,
                 violations   |-> r.totalViolations]>>

\* Reporter.PrintSummary: what it prints, <<>> when it prints nothing.  In
\* directory mode the number of files checked, the counts of OK, warning and
\* error files and the exit code of the status line; otherwise the number of
\* files checked and the number of violations.
PrintSummary(r) ==
    IF r.totalFiles = 0 THEN <<>>
    ELSE IF r.isDirectory
         THEN <<[mode         |-> "directory",
                 filesChecked |-> r.totalFiles,
                 okFiles      |-> r.okFiles,
                 warnFiles    |-> r.warnFiles,
                 errorFiles   |-> r.errorFiles,
                 exitCode     |-> IF r.errorFiles > 0 THEN 2
                                  ELSE IF r.warnFiles > 0 THEN 1 ELSE 0]>>
         ELSE <<[mode         |-> "file",
                 filesChecked |-> r.totalFiles,
                 violations   |-> r.totalViolations]>>

-----------------------------------------------------------------------------
(* Values of the variables a specification does not use *)

NotDone == [done |-> FALSE]

engineVars == <<re, firstCall, lastCall, interleaved, evals>>
mainVars == <<pc, nFiles, fileIdx, resources, docIdx, maxSeverity, exitCode, runLog>>

HarnessIdle == call = [fn |-> "none"] /\ ret = NotDone
EngineIdle == re = [config |-> <<>>] /\ firstCall = <<>> /\ lastCall = <<>> /\ interleaved = FALSE /\ evals = <<>>
ReporterIdle == reporter = NewReporter(FALSE)
MainIdle ==
    /\ pc = "idle" /\ nFiles = 0 /\ fileIdx = 0 /\ resources = <<>> /\ docIdx = 0
    /\ maxSeverity = ExitOK /\ exitCode = -1 /\ runLog = <<>>

-----------------------------------------------------------------------------
(* Specification of imageTagEquals: one call on drawn arguments *)

InitTag ==
    /\ call \in {[fn |-> "imageTagEquals", image |-> im, tag |-> tg] :
                     im \in Images, tg \in Tags}
    /\ ret = NotDone
    /\ EngineIdle /\ ReporterIdle /\ MainIdle

CallImageTagEquals ==
    /\ call.fn = "imageTagEquals" /\ ~ret.done
    /\ ret' = [done |-> TRUE, result |-> imageTagEquals(call.image, call.tag)]
    /\ UNCHANGED <<call, engineVars, reporter, mainVars>>

NextTag == CallImageTagEquals

SpecTag == InitTag /\ [][NextTag]_vars

-----------------------------------------------------------------------------
(* Specification of checkCondition: one call on drawn arguments *)

InitCond ==
    /\ call \in {[fn |-> "checkCondition", condition |-> cd, container |-> c] :
                     cd \in ConditionStrings, c \in OneFieldContainers}
    /\ ret = NotDone
    /\ EngineIdle /\ ReporterIdle /\ MainIdle

CallCheckCondition ==
    /\ call.fn = "checkCondition" /\ ~ret.done
    /\ ret' = [done           |-> TRUE,
               conditionType  |-> ParseCondition(call.condition).conditionType,
               conditionValue |-> ParseCondition(call.condition).conditionValue,
               result         |-> checkCondition(call.condition, call.container)]
    /\ UNCHANGED <<call, engineVars, reporter, mainVars>>

NextCond == CallCheckCondition

SpecCond == InitCond /\ [][NextCond]_vars

-----------------------------------------------------------------------------
(* Specification of evaluateRule: one call on drawn arguments *)

InitRule ==
    /\ call \in {[fn |-> "evaluateRule", rule |-> r, container |-> c] :
                     r \in HarnessRules, c \in HarnessContainers}
    /\ ret = NotDone
    /\ EngineIdle /\ ReporterIdle /\ MainIdle

CallEvaluateRule ==
    /\ call.fn = "evaluateRule" /\ ~ret.done
    /\ ret' = [done       |-> TRUE,
               violations |-> evaluateRule(call.rule, call.container),
               checked    |-> evaluateRuleTrace(call.rule, call.container).checked]
    /\ UNCHANGED <<call, engineVars, reporter, mainVars>>

NextRule == CallEvaluateRule

SpecRule == InitRule /\ [][NextRule]_vars

-----------------------------------------------------------------------------
(* Decoded documents the harness draws from *)

\* Nothing, or one value of S.
Optional(S) == {<<>>} \cup {<<x>> : x \in S}

\* The map with the key bound to the value of o, empty when o is nothing.
Entry(key, o) == IF o = <<>> THEN EmptyMap ELSE key :> o[1]

RawClean ==
    YMap(("name" :> YStr(Lit("web"))) @@ ("image" :> YStr(<<"app", Colon, "v1">>))
         @@ ("resources" :> YMap(
                ("requests" :> YMap(("cpu" :> YStr(Lit("100m"))) @@ ("memory" :> YStr(Lit("100m")))))
                @@ ("limits" :> YMap(("cpu" :> YStr(Lit("100m"))) @@ ("memory" :> YStr(Lit("100m")))))))
         @@ ("securityContext" :> YMap("runAsNonRoot" :> YBool(TRUE))))

RawBare == YMap(("name" :> YStr(Lit("db"))) @@ ("image" :> YStr(Lit("app"))))

RawLatestRoot ==
    YMap(("name" :> YStr(Lit("job"))) @@ ("image" :> YStr(<<"app", Colon, "latest">>))
         @@ ("resources" :> YMap("requests" :> YMap(("cpu" :> YStr(Lit("100m")))
                                                     @@ ("memory" :> YStr(Lit("100m"))))))
         @@ ("securityContext" :> YMap(("runAsNonRoot" :> YBool(TRUE)) @@ ("runAsUser" :> YInt(0)))))

\* Every field of the wrong type.
RawMistyped ==
    YMap(("name" :> YInt(5)) @@ ("image" :> YBool(TRUE))
         @@ ("resources" :> YStr(Lit("none")))
         @@ ("securityContext" :> YSeq(<<>>)))

\* Mappings where they belong, with fields of the wrong type inside them.
RawHalfTyped ==
    YMap(("name" :> YStr(Lit("cache"))) @@ ("image" :> YNil)
         @@ ("resources" :> YMap(("requests" :> YStr(Lit("none")))
                                 @@ ("limits" :> YMap(("cpu" :> YInt(1))
                                                      @@ ("memory" :> YStr(Lit("100m")))))))
         @@ ("securityContext" :> YMap(("runAsNonRoot" :> YStr(Lit("true")))
                                       @@ ("runAsUser" :> YStr(Lit("0"))))))

RawElements == {RawClean, RawBare, RawLatestRoot, RawMistyped, RawHalfTyped, YStr(Lit("oops"))}

ContainerLists == SeqsUpTo(RawElements, MaxContainers)

ContainerListValues ==
    {YSeq(l) : l \in ContainerLists} \cup {YNil, YStr(Lit("none")), YMap(EmptyMap)}

TemplateValues ==
    {YNil, YStr(Lit("none")), YSeq(<<>>), YMap(EmptyMap),
     YMap("spec" :> YNil), YMap("spec" :> YStr(Lit("none"))), YMap("spec" :> YMap(EmptyMap))}
    \cup {YMap("spec" :> YMap("containers" :> cl)) : cl \in ContainerListValues}

MkResource(kind, spec) ==
    [APIVersion |-> Lit("apps/v1"),
     Kind       |-> Lit(kind),
     Metadata   |-> YMap("name" :> YStr(Lit("demo"))),
     Spec       |-> spec]

SpecValues ==
    {YNil} \cup {YMap(Entry("template", tv) @@ Entry("containers", cv)) :
                     tv \in Optional(TemplateValues), cv \in Optional(ContainerListValues)}

HarnessResources == {MkResource("Deployment", sp) : sp \in SpecValues}

-----------------------------------------------------------------------------
(* Specification of extractContainersFromResource: one call on a drawn resource *)

InitExtract ==
    /\ call \in {[fn |-> "extractContainersFromResource", resource |-> r] :
                     r \in HarnessResources}
    /\ ret = NotDone
    /\ EngineIdle /\ ReporterIdle /\ MainIdle

CallExtractContainers ==
    /\ call.fn = "extractContainersFromResource" /\ ~ret.done
    /\ ret' = [done |-> TRUE, containers |-> extractContainersFromResource(call.resource)]
    /\ UNCHANGED <<call, engineVars, reporter, mainVars>>

NextExtract == CallExtractContainers

SpecExtract == InitExtract /\ [][NextExtract]_vars

-----------------------------------------------------------------------------
(* Specification of RuleEngine.EvaluateResource: calls on one engine *)

EvalRules ==
    {GetDefaultConfig[1], GetDefaultConfig[2], GetDefaultConfig[4]}

EvalConfigs == SeqsUpTo(EvalRules, MaxRules) \cup {GetDefaultConfig}

EvalElements == {RawBare, RawLatestRoot}

DeploymentOf(list) ==
    MkResource("Deployment", YMap("template" :> YMap("spec" :> YMap("containers" :> YSeq(list)))))

PodOf(list) == MkResource("Pod", YMap("containers" :> YSeq(list)))

EvalResources ==
    {MkResource("ConfigMap", YNil)}
    \cup {DeploymentOf(l) : l \in SeqsUpTo(EvalElements, MaxContainers)}
    \cup {PodOf(<<RawClean, RawBare>>)}

InitEval ==
    /\ re \in {NewRuleEngine(cfg) : cfg \in EvalConfigs}
    /\ firstCall = <<>> /\ lastCall = <<>> /\ interleaved = FALSE /\ evals = <<>>
    /\ HarnessIdle /\ ReporterIdle /\ MainIdle

\* One call of re.EvaluateResource(resource); the engine is only read.
CallEvaluateResource(resource) ==
    LET this == [resource |-> resource, violations |-> EvaluateResource(re, resource)]
    IN  /\ lastCall' = <<this>>
        /\ firstCall' = IF firstCall = <<>> THEN <<this>> ELSE firstCall
        /\ interleaved' = (interleaved \/ (firstCall # <<>> /\ firstCall[1].resource # resource))
        /\ UNCHANGED <<re, call, ret, evals, reporter, mainVars>>

NextEval == \E resource \in EvalResources : CallEvaluateResource(resource)

SpecEval == InitEval /\ [][NextEval]_vars

-----------------------------------------------------------------------------
(* Specification of Reporter.ReportViolations: calls on one reporter *)

MkViolation(severity) ==
    [Severity |-> severity, Message |-> Lit("Container 'web' violates policy"), Rule |-> Lit("r")]

\* ERROR, WARN, and a severity a rule file may give that is neither.
SampleViolations == {MkViolation(SeverityError), MkViolation(SeverityWarn), MkViolation(Lit("INFO"))}

ViolationLists == SeqsUpTo(SampleViolations, MaxViolations)

InitReport ==
    /\ reporter \in {SetDirectoryMode(NewReporter(v), d) : v \in BOOLEAN, d \in BOOLEAN}
    /\ HarnessIdle /\ EngineIdle /\ MainIdle

CallReportViolations(violations) ==
    /\ reporter.totalFiles < MaxReports
    /\ call' = [fn |-> "ReportViolations", violations |-> violations]
    /\ ret' = [done |-> TRUE, severity |-> ReportViolations(reporter, violations).severity]
    /\ reporter' = ReportViolations(reporter, violations).reporter
    /\ UNCHANGED <<engineVars, mainVars>>

NextReport == \E violations \in ViolationLists : CallReportViolations(violations)

SpecReport == InitReport /\ [][NextReport]_vars

-----------------------------------------------------------------------------
(* parseYAMLFile and parseYAML *)

\* A file is unreadable, or a sequence of YAML documents; a document is one
\* the decoder fails on, or decodes to a K8sResource.
UndecodableDoc == [decodes |-> FALSE]
Doc(resource) == [decodes |-> TRUE, resource |-> resource]

UnreadableFile == [readable |-> FALSE]
FileOf(docs) == [readable |-> TRUE, docs |-> docs]

\* Variant: documents with an empty kind are kept.
RECURSIVE parseYAMLFromKeepingEmpty(_, _, _)
parseYAMLFromKeepingEmpty(docs, i, acc) ==
    IF i > Len(docs) THEN [err |-> FALSE, resources |-> acc]
    ELSE IF ~docs[i].decodes THEN [err |-> TRUE, resources |-> <<>>]
    ELSE parseYAMLFromKeepingEmpty(docs, i + 1, Append(acc, docs[i].resource))

\* The decode loop of parseYAML from document i on: the first document that
\* fails to decode fails the whole call; documents with an empty kind are
\* skipped.
RECURSIVE parseYAMLFrom(_, _, _)
parseYAMLFrom(docs, i, acc) ==
    IF i > Len(docs) THEN [err |-> FALSE, resources |-> acc]
    ELSE IF ~docs[i].decodes THEN [err |-> TRUE, resources |-> <<>>]
    ELSE IF docs[i].resource.Kind = <<>> THEN parseYAMLFrom(docs, i + 1, acc)
    ELSE parseYAMLFrom(docs, i + 1, Append(acc, docs[i].resource))

parseYAML(docs) == parseYAMLFrom(docs, 1, <<>>)

parseYAMLFile(file) ==
    IF ~file.readable THEN [err |-> TRUE, resources |-> <<>>]
    ELSE parseYAML(file.docs)

-----------------------------------------------------------------------------
(* Specification of main: from the parsed flags to os.Exit *)

\* A rule whose severity is neither ERROR nor WARN, as a rule file may hold.
InfoRule ==
    MkRule("audit-image", Lit("INFO"), <<Lit("image_tag_missing")>>, MessageTemplate)

\* Documents with document severity OK, WARN and ERROR under the default
\* rules, a document without kind, and one that does not decode.
PassingDoc == Doc(DeploymentOf(<<RawClean>>))
WarningDoc ==
    Doc(PodOf(<<YMap(("name" :> YStr(Lit("api"))) @@ ("image" :> YStr(<<"app", Colon, "v1">>))
                    @@ ("securityContext" :> YMap("runAsNonRoot" :> YBool(TRUE))))>>))
FailingDoc == Doc(DeploymentOf(<<RawBare>>))
EmptyDoc == Doc([APIVersion |-> <<>>, Kind |-> <<>>, Metadata |-> YNil, Spec |-> YNil])

Documents == {PassingDoc, WarningDoc, FailingDoc, EmptyDoc, UndecodableDoc}

Files == {UnreadableFile} \cup {FileOf(docs) : docs \in SeqsUpTo(Documents, MaxDocs)}

NewRunLog == [parseFailures |-> 0, severities |-> {}, last |-> ExitOK, summary |-> <<>>]

\* flag.Args(): no argument, standard input, a manifest file, a directory.
MainArgs == {<<>>, <<Lit("-")>>, <<Lit("pod.yaml")>>, <<Lit("manifests")>>}

\* isDirectory: os.Stat says the path is a directory.
isDirectory(path) == path = Lit("manifests")

\* len(files) after the input is processed without error: one temporary file
\* for standard input; for a directory the YAML files found below it, or,
\* when it holds a Chart.yaml, the files helm renders (none is then an
\* error); the path itself otherwise.
InputFiles(input) ==
    IF input = Lit("-") THEN {1}
    ELSE IF isDirectory(input) THEN 0..MaxFiles
    ELSE {1}

\* Rule sets a rule file may hold.
ExternalConfigs == {<<>>, <<InfoRule>>, GetDefaultConfig}

\* LoadRuleConfig on a file: an error (unreadable, not YAML), or its rules.
LoadResults ==
    {[err |-> TRUE, config |-> <<>>]} \cup {[err |-> FALSE, config |-> cfg] : cfg \in ExternalConfigs}

\* configPaths, by position: ./kubecheck.yaml, ./kubecheck.yml,
\* $HOME/.kubecheck/config.yaml, $HOME/.kubecheck/config.yml.
ConfigPaths == 1..4

\* Variant: a later location overrides an earlier one.
LastExisting(existing) == CHOOSE i \in existing : \A j \in existing : j <= i

\* The first of the default locations os.Stat finds.
FirstExisting(existing) == CHOOSE i \in existing : \A j \in existing : i <= j

\* The rule files of a run of the whole of main: --config given, no rule
\* file at all, a rule file at ~/.kubecheck/config.yaml only.
MainRuleFiles ==
    {[configFile |-> Lit("rules.yaml"), existing |-> {}],
     [configFile |-> <<>>, existing |-> {}],
     [configFile |-> <<>>, existing |-> {3}]}

\* What main has before it starts: the reporter and the engine are not made,
\* no file is listed.
MainStart ==
    /\ ret = NotDone
    /\ EngineIdle /\ ReporterIdle
    /\ pc = "config" /\ nFiles = 0 /\ fileIdx = 0 /\ resources = <<>> /\ docIdx = 0
    /\ maxSeverity = ExitOK /\ exitCode = -1 /\ runLog = NewRunLog

\* len(args) == 0: the usage is printed and main exits with ExitError.
Usage ==
    /\ pc = "config" /\ Len(call.args) = 0
    /\ pc' = "usage"
    /\ exitCode' = ExitError
    /\ UNCHANGED <<call, ret, engineVars, reporter, nFiles, fileIdx, resources, docIdx,
                   maxSeverity, runLog>>

\* Variant: a rule file that fails to load is replaced by the built-in rules.
ConfigLoadedFallsBack(loaded, source, path) ==
    /\ ret' = [done |-> TRUE, source |-> source, path |-> path, err |-> loaded.err]
    /\ pc' = "input"
    /\ re' = NewRuleEngine(IF loaded.err THEN GetDefaultConfig ELSE loaded.config)
    /\ UNCHANGED <<call, firstCall, lastCall, interleaved, evals, reporter, nFiles, fileIdx,
                   resources, docIdx, maxSeverity, exitCode, runLog>>

\* The outcome of loading a rule file: the engine is made from its rules, or
\* the error is printed and main exits with ExitError.
ConfigLoaded(loaded, source, path) ==
    /\ ret' = [done |-> TRUE, source |-> source, path |-> path, err |-> loaded.err]
    /\ IF loaded.err
       THEN pc' = "aborted" /\ exitCode' = ExitError /\ UNCHANGED re
       ELSE pc' = "input" /\ re' = NewRuleEngine(loaded.config) /\ UNCHANGED exitCode
    /\ UNCHANGED <<call, firstCall, lastCall, interleaved, evals, reporter, nFiles, fileIdx,
                   resources, docIdx, maxSeverity, runLog>>

\* --config was given: that file is loaded.
LoadConfigFromFlag(loaded) ==
    /\ pc = "config" /\ Len(call.args) > 0 /\ call.configFile # <<>>
    /\ ConfigLoaded(loaded, "flag", 0)

\* --config was not given and a default location holds a file: the first
\* such file is loaded.
LoadConfigFromDefaultPath(loaded) ==
    /\ pc = "config" /\ Len(call.args) > 0 /\ call.configFile = <<>> /\ call.existing # {}
    /\ ConfigLoaded(loaded, "path", FirstExisting(call.existing))

\* Variant: without a rule file the engine is made with no rules.
UseNoRules ==
    /\ pc = "config" /\ Len(call.args) > 0 /\ call.configFile = <<>> /\ call.existing = {}
    /\ ret' = [done |-> TRUE, source |-> "builtin", path |-> 0, err |-> FALSE]
    /\ re' = NewRuleEngine(<<>>)
    /\ pc' = "input"
    /\ UNCHANGED <<call, firstCall, lastCall, interleaved, evals, reporter, nFiles, fileIdx,
                   resources, docIdx, maxSeverity, exitCode, runLog>>

\* --config was not given and no default location holds a file: the built-in
\* rules are used.
UseDefaultConfig ==
    /\ pc = "config" /\ Len(call.args) > 0 /\ call.configFile = <<>> /\ call.existing = {}
    /\ ret' = [done |-> TRUE, source |-> "builtin", path |-> 0, err |-> FALSE]
    /\ re' = NewRuleEngine(GetDefaultConfig)
    /\ pc' = "input"
    /\ UNCHANGED <<call, firstCall, lastCall, interleaved, evals, reporter, nFiles, fileIdx,
                   resources, docIdx, maxSeverity, exitCode, runLog>>

\* Processing the input fails (no temporary file for standard input or
\* reading it fails; helm is missing or fails, or the chart renders no YAML
\* file; the directory cannot be read): main exits with ExitError.  A path
\* that is not a directory is taken as the one file, without error.
ProcessInputFails ==
    /\ pc = "input"
    /\ call.args[1] = Lit("-") \/ isDirectory(call.args[1])
    /\ pc' = "failed"
    /\ exitCode' = ExitError
    /\ UNCHANGED <<call, ret, engineVars, reporter, nFiles, fileIdx, resources, docIdx,
                   maxSeverity, runLog>>

\* Processing the input gives n files.
ProcessInput(n) ==
    /\ pc = "input"
    /\ n \in InputFiles(call.args[1])
    /\ nFiles' = n
    /\ pc' = "start"
    /\ UNCHANGED <<call, ret, engineVars, reporter, fileIdx, resources, docIdx,
                   maxSeverity, exitCode, runLog>>

\* main after flag.Parse: -v, the arguments, --config ("" when not given) and
\* the default locations at which a rule file exists.
Init ==
    /\ call \in {[fn |-> "main", verbose |-> v, args |-> a, configFile |-> f.configFile,
                  existing |-> f.existing] :
                     v \in BOOLEAN, a \in MainArgs, f \in MainRuleFiles}
    /\ MainStart

\* maxSeverity := ExitOK; the reporter is made and put in directory mode when
\* there are several files or the input is a directory.
StartValidation ==
    /\ pc = "start"
    /\ maxSeverity' = ExitOK
    /\ reporter' = IF nFiles > 1 \/ isDirectory(call.args[1])
                   THEN SetDirectoryMode(NewReporter(call.verbose), TRUE)
                   ELSE NewReporter(call.verbose)
    /\ fileIdx' = 1
    /\ pc' = "files"
    /\ UNCHANGED <<call, ret, engineVars, nFiles, resources, docIdx, exitCode, runLog>>

\* parseYAMLFile(file) fails: the error is printed and the loop continues
\* with the next file.
ParseFileFails(file) ==
    /\ pc = "files" /\ fileIdx <= nFiles
    /\ parseYAMLFile(file).err
    /\ runLog' = [runLog EXCEPT !.parseFailures = @ + 1]
    /\ fileIdx' = fileIdx + 1
    /\ UNCHANGED <<call, ret, engineVars, reporter, pc, nFiles, resources, docIdx,
                   maxSeverity, exitCode>>

\* parseYAMLFile(file) succeeds: the inner loop starts on its resources.
ParseFileSucceeds(file) ==
    /\ pc = "files" /\ fileIdx <= nFiles
    /\ ~parseYAMLFile(file).err
    /\ resources' = parseYAMLFile(file).resources
    /\ docIdx' = 1
    /\ pc' = "resources"
    /\ UNCHANGED <<call, ret, engineVars, reporter, nFiles, fileIdx, maxSeverity,
                   exitCode, runLog>>

\* Variant of the loop body: maxSeverity takes the severity of the document
\* just reported.
ValidateResourceLastWins ==
    /\ pc = "resources" /\ docIdx <= Len(resources)
    /\ LET violations == EvaluateResource(re, resources[docIdx])
           reported == ReportViolations(reporter, violations)
       IN  /\ reporter' = reported.reporter
           /\ maxSeverity' = reported.severity
           /\ runLog' = [runLog EXCEPT !.severities = @ \cup {reported.severity},
                                       !.last = reported.severity]
    /\ docIdx' = docIdx + 1
    /\ UNCHANGED <<call, ret, engineVars, pc, nFiles, fileIdx, resources, exitCode>>

\* The body of the inner loop: evaluate the resource, report its violations,
\* raise maxSeverity to the severity returned.
ValidateResource ==
    /\ pc = "resources" /\ docIdx <= Len(resources)
    /\ LET violations == EvaluateResource(re, resources[docIdx])
           reported == ReportViolations(reporter, violations)
       IN  /\ reporter' = reported.reporter
           /\ maxSeverity' = IF reported.severity > maxSeverity
                             THEN reported.severity ELSE maxSeverity
           /\ runLog' = [runLog EXCEPT !.severities = @ \cup {reported.severity},
                                       !.last = reported.severity]
    /\ docIdx' = docIdx + 1
    /\ UNCHANGED <<call, ret, engineVars, pc, nFiles, fileIdx, resources, exitCode>>

\* The inner loop is over: on to the next file.
NextFile ==
    /\ pc = "resources" /\ docIdx > Len(resources)
    /\ fileIdx' = fileIdx + 1
    /\ pc' = "files"
    /\ UNCHANGED <<call, ret, engineVars, reporter, nFiles, resources, docIdx,
                   maxSeverity, exitCode, runLog>>

\* The outer loop is over: reporter.PrintSummary(); os.Exit(maxSeverity).
Exit ==
    /\ pc = "files" /\ fileIdx > nFiles
    /\ runLog' = [runLog EXCEPT !.summary = PrintSummary(reporter)]
    /\ exitCode' = maxSeverity
    /\ pc' = "exited"
    /\ UNCHANGED <<call, ret, engineVars, reporter, nFiles, fileIdx, resources, docIdx,
                   maxSeverity>>

Next ==
    \/ Usage
    \/ \E loaded \in LoadResults : LoadConfigFromFlag(loaded)
    \/ \E loaded \in LoadResults : LoadConfigFromDefaultPath(loaded)
    \/ UseDefaultConfig
    \/ ProcessInputFails
    \/ \E n \in 0..MaxFiles : ProcessInput(n)
    \/ StartValidation
    \/ \E file \in Files : ParseFileFails(file)
    \/ \E file \in Files : ParseFileSucceeds(file)
    \/ ValidateResource
    \/ NextFile
    \/ Exit

Spec == Init /\ [][Next]_vars

-----------------------------------------------------------------------------
(* Specification of main on a single input file, the file being known *)

SingleFiles ==
    {UnreadableFile} \cup {FileOf(docs) : docs \in SeqsUpTo(Documents, MaxDocs + 1)}

\* main after flag.Parse, and the one file its input stands for: the file
\* named, the only one in the directory, or the copy of standard input.
InitSingle ==
    /\ call \in {[fn |-> "main", verbose |-> FALSE, args |-> a, configFile |-> f,
                  existing |-> {}, file |-> file] :
                     a \in MainArgs, f \in {<<>>, Lit("rules.yaml")}, file \in SingleFiles}
    /\ MainStart

NextSingle ==
    \/ Usage
    \/ \E loaded \in LoadResults : LoadConfigFromFlag(loaded)
    \/ UseDefaultConfig
    \/ ProcessInputFails
    \/ ProcessInput(1)
    \/ StartValidation
    \/ ParseFileFails(call.file)
    \/ ParseFileSucceeds(call.file)
    \/ ValidateResource
    \/ NextFile
    \/ Exit

SpecSingle == InitSingle /\ [][NextSingle]_vars

-----------------------------------------------------------------------------
(* Specification of the rule set selection of main *)

\* main after flag.Parse: the arguments, the --config flag ("" when not
\* given) and the default locations at which a file exists.
InitConfig ==
    /\ call \in {[fn |-> "main", verbose |-> v, args |-> a, configFile |-> f, existing |-> e] :
                     v \in BOOLEAN, a \in {<<>>, <<Lit("manifests")>>},
                     f \in {<<>>, Lit("rules.yaml")}, e \in SUBSET ConfigPaths}
    /\ MainStart

NextConfig ==
    \/ Usage
    \/ \E loaded \in LoadResults : LoadConfigFromFlag(loaded)
    \/ \E loaded \in LoadResults : LoadConfigFromDefaultPath(loaded)
    \/ UseDefaultConfig

SpecConfig == InitConfig /\ [][NextConfig]_vars

-----------------------------------------------------------------------------
(* Specification of the validation of one document: a decoded manifest with  *)
(* one container goes through container extraction, the conditions and the   *)
(* body of main's inner loop                                                 *)

\* Values a manifest may give for cpu and memory, for requests and limits,
\* for resources and for securityContext, wrongly-typed ones included.
QuantityValues == {YStr(<<>>), YStr(Lit("100m")), YInt(1)}

ResourceSpecValues ==
    {YMap(Entry("cpu", c) @@ Entry("memory", m)) :
         c \in Optional(QuantityValues), m \in Optional(QuantityValues)}
    \cup {YStr(Lit("none"))}

ResourcesValues ==
    {YMap(Entry("requests", rq) @@ Entry("limits", lm)) :
         rq \in Optional(ResourceSpecValues), lm \in Optional(ResourceSpecValues)}
    \cup {YStr(Lit("none"))}

SecurityValues ==
    {YMap(Entry("runAsNonRoot", a) @@ Entry("runAsUser", u)) :
         a \in Optional({YBool(TRUE), YBool(FALSE), YStr(Lit("false"))}),
         u \in Optional({YInt(0), YInt(1000), YStr(Lit("0"))})}
    \cup {YSeq(<<>>)}

ImageValues ==
    {YStr(Lit("nginx")), YStr(<<"nginx", Colon, "latest">>), YStr(<<"nginx", Colon, "1.21">>),
     YStr(<<"registry", Colon, "5000/nginx", Colon, "latest">>)}

\* One element of a container list; res and sec are nothing or one value.
RawContainer(name, image, res, sec) ==
    YMap(("name" :> YStr(Lit(name))) @@ ("image" :> image)
         @@ Entry("resources", res) @@ Entry("securityContext", sec))

CompleteResources ==
    YMap(("requests" :> YMap(("cpu" :> YStr(Lit("100m"))) @@ ("memory" :> YStr(Lit("128Mi")))))
         @@ ("limits" :> YMap(("cpu" :> YStr(Lit("500m"))) @@ ("memory" :> YStr(Lit("512Mi"))))))

NonRootContext == YMap("runAsNonRoot" :> YBool(TRUE))

\* {name: nginx, image: nginx}
BareNginx == RawContainer("nginx", YStr(Lit("nginx")), <<>>, <<>>)

\* nginx:1.21 with requests, limits and runAsNonRoot: true
HardenedNginx ==
    RawContainer("nginx", YStr(<<"nginx", Colon, "1.21">>), <<CompleteResources>>, <<NonRootContext>>)

\* The hardened container, and what differs from it in its image, in its
\* resources or in its securityContext; the bare container.
DocElements ==
    {RawContainer("nginx", im, <<CompleteResources>>, <<NonRootContext>>) : im \in ImageValues}
    \cup {RawContainer("nginx", YStr(<<"nginx", Colon, "1.21">>), r, <<NonRootContext>>) :
              r \in Optional(ResourcesValues)}
    \cup {RawContainer("nginx", YStr(<<"nginx", Colon, "1.21">>), <<CompleteResources>>, sc) :
              sc \in Optional(SecurityValues)}
    \cup {BareNginx, RawBare}

\* A CronJob: the pod template is under spec.jobTemplate.spec.
CronJobOf(list) ==
    MkResource("CronJob",
               YMap(("schedule" :> YStr(Lit("@daily")))
                    @@ ("jobTemplate" :> YMap("spec" :> YMap("template" :>
                            YMap("spec" :> YMap("containers" :> YSeq(list))))))))

DocKinds == {"Pod", "Deployment", "CronJob"}

DocResource(kind, element) ==
    CASE kind = "Pod" -> PodOf(<<element>>)
      [] kind = "Deployment" -> DeploymentOf(<<element>>)
      [] kind = "CronJob" -> CronJobOf(<<element>>)

\* A rule none of whose conditions has a supported identifier.
UnrecognizedConditions ==
    <<Lit("not_a_condition"), <<"not_a_condition", Colon, "latest">>,
      Lit("IMAGE_TAG_MISSING"), <<>>>>

UnrecognizedRule ==
    MkRule("house-policy", SeverityError, UnrecognizedConditions, MessageTemplate)

DocConfigs ==
    {GetDefaultConfig,
     <<GetDefaultConfig[1], UnrecognizedRule, GetDefaultConfig[4]>>}

DocConditions ==
    {<<"image_tag_equals", Colon, "latest">>, Lit("image_tag_missing"),
     Lit("missing_cpu_requests"), Lit("missing_memory_requests"),
     Lit("missing_cpu_limits"), Lit("missing_memory_limits"),
     Lit("missing_security_context"), Lit("run_as_non_root_false"),
     Lit("run_as_user_zero")}
    \cup {UnrecognizedConditions[i] : i \in 1..Len(UnrecognizedConditions)}

InitDoc ==
    /\ call \in {[fn |-> "document", kind |-> k, element |-> e,
                  resource |-> DocResource(k, e)] : k \in DocKinds, e \in DocElements}
    /\ ret = NotDone
    /\ re \in {NewRuleEngine(cfg) : cfg \in DocConfigs}
    /\ firstCall = <<>> /\ lastCall = <<>> /\ interleaved = FALSE /\ evals = <<>>
    /\ ReporterIdle /\ MainIdle

\* The containers of the document are extracted and the condition is checked
\* on each of them, as evaluateRule does for a condition of a rule.
CheckConditionOnDocument(condition) ==
    /\ call.fn = "document" /\ ~ret.done
    /\ LET containers == extractContainersFromResource(call.resource)
       IN  ret' = [done       |-> TRUE,
                   fn         |-> "checkCondition",
                   condition  |-> condition,
                   containers |-> containers,
                   results    |-> [j \in 1..Len(containers) |->
                                      checkCondition(condition, containers[j])]]
    /\ UNCHANGED <<call, engineVars, reporter, mainVars>>

\* The body of main's inner loop on the document: the violations of the
\* resource and the severity the reporter returns for them.
ValidateDocument ==
    /\ call.fn = "document" /\ ~ret.done
    /\ LET violations == EvaluateResource(re, call.resource)
           reported == ReportViolations(reporter, violations)
       IN  /\ ret' = [done       |-> TRUE,
                      fn         |-> "EvaluateResource",
                      containers |-> extractContainersFromResource(call.resource),
                      violations |-> violations,
                      severity   |-> reported.severity]
           /\ reporter' = reported.reporter
           /\ maxSeverity' = IF reported.severity > maxSeverity
                             THEN reported.severity ELSE maxSeverity
    /\ UNCHANGED <<call, engineVars, pc, nFiles, fileIdx, resources, docIdx, exitCode, runLog>>

NextDoc ==
    \/ \E condition \in DocConditions : CheckConditionOnDocument(condition)
    \/ ValidateDocument

SpecDoc == InitDoc /\ [][NextDoc]_vars

-----------------------------------------------------------------------------
(* Claims about evaluateRule, checkCondition and imageTagEquals *)

TrueConditions(rule, container) ==
    {i \in 1..Len(rule.Conditions) : checkCondition(rule.Conditions[i], container)}

\* C1: evaluateRule checks the conditions of the rule in declaration order and
\* stops at the first true one: when some condition is true of the container
\* it has checked exactly the conditions up to the first true one and returns
\* exactly one violation, however many are true; when none is true it has
\* checked them all and returns no violation.
C1_OneViolationPerRuleAndContainer ==
    (call.fn = "evaluateRule" /\ ret.done) =>
        LET hits == TrueConditions(call.rule, call.container)
        IN  IF hits # {}
            THEN /\ Len(ret.violations) = 1
                 /\ ret.checked \in hits
                 /\ \A i \in hits : ret.checked <= i
            ELSE /\ ret.violations = <<>>
                 /\ ret.checked = Len(call.rule.Conditions)

\* A rule with several true conditions has been evaluated.
C1_Witness ==
    /\ call.fn = "evaluateRule" /\ ret.done
    /\ Cardinality(TrueConditions(call.rule, call.container)) >= 2
    /\ ~checkCondition(call.rule.Conditions[1], call.container)
    /\ Len(ret.violations) = 1

ColonPositions(s) == {i \in 1..Len(s) : s[i] = Colon}

\* C9: checkCondition splits the expression on the first colon only: the
\* identifier is the text before it and the parameter is the whole text after
\* it, further colons included.
C9_SplitOnFirstColon ==
    (call.fn = "checkCondition" /\ ret.done) =>
        LET cd == call.condition
            colons == ColonPositions(cd)
        IN  IF colons = {}
            THEN ret.conditionType = cd /\ ret.conditionValue = <<>>
            ELSE LET k == CHOOSE i \in colons : \A j \in colons : i <= j
                 IN  /\ ret.conditionType = SubSeq(cd, 1, k - 1)
                     /\ ret.conditionValue = SubSeq(cd, k + 1, Len(cd))

\* C10: imageTagEquals(image, tag) is true exactly when the image has one
\* colon and the text after it equals tag, or has no colon and tag is
\* "latest"; with two or more colons it is false for every tag.
C10_ImageTagEquals ==
    (call.fn = "imageTagEquals" /\ ret.done) =>
        LET im == call.image
            colons == ColonPositions(im)
        IN  ret.result <=>
                \/ colons = {} /\ call.tag = Lit("latest")
                \/ /\ Cardinality(colons) = 1
                   /\ \A k \in colons : SubSeq(im, k + 1, Len(im)) = call.tag

\* An image of three parts ending in the tag asked for, as
\* host:5000/app:latest, has been compared and found not to match.
C10_Witness ==
    /\ call.fn = "imageTagEquals" /\ ret.done
    /\ Cardinality(ColonPositions(call.image)) = 2
    /\ call.image[Len(call.image)] = "latest"
    /\ call.tag = Lit("latest")
    /\ ~ret.result

-----------------------------------------------------------------------------
(* Claims about extractContainersFromResource *)

HasSpecKey(resource, key) ==
    resource.Spec.t = "map" /\ key \in DOMAIN resource.Spec.v

\* The value at spec.template.spec.containers, read key by key.
AtTemplatePath(resource) ==
    IF ~HasSpecKey(resource, "template") THEN YNil
    ELSE LET tv == resource.Spec.v["template"]
         IN  IF tv.t # "map" \/ "spec" \notin DOMAIN tv.v THEN YNil
             ELSE LET ps == tv.v["spec"]
                  IN  IF ps.t # "map" \/ "containers" \notin DOMAIN ps.v THEN YNil
                      ELSE ps.v["containers"]

\* The value at spec.containers.
AtPodPath(resource) ==
    IF HasSpecKey(resource, "containers") THEN resource.Spec.v["containers"] ELSE YNil

MapElements(list) == SelectSeq(list, LAMBDA e : e.t = "map")

\* C7: when spec.template.spec.containers exists and is a sequence, the
\* containers returned are those of that sequence, one per element that is a
\* map and in their order, also when the sequence is empty and spec.containers
\* is not.
C7_TemplateContainersWin ==
    (call.fn = "extractContainersFromResource" /\ ret.done
     /\ AtTemplatePath(call.resource).t = "seq") =>
        LET from == MapElements(AtTemplatePath(call.resource).v)
        IN  /\ Len(ret.containers) = Len(from)
            /\ \A i \in 1..Len(from) : ret.containers[i] = parseContainer(from[i].v)

\* An empty spec.template.spec.containers beside a spec.containers that holds
\* a container: nothing is returned.
C7_Witness ==
    /\ call.fn = "extractContainersFromResource" /\ ret.done
    /\ AtTemplatePath(call.resource) = YSeq(<<>>)
    /\ AtPodPath(call.resource).t = "seq"
    /\ MapElements(AtPodPath(call.resource).v) # <<>>
    /\ ret.containers = <<>>

\* C8 as claimed: when the spec has a template key, whatever its value, the
\* containers under spec.containers are never returned: the result is what
\* spec.template.spec.containers gives, and nothing when that is no sequence.
C8_TemplateKeyExcludesPodPath ==
    (call.fn = "extractContainersFromResource" /\ ret.done
     /\ HasSpecKey(call.resource, "template")) =>
        ret.containers =
            IF AtTemplatePath(call.resource).t = "seq"
            THEN parseContainers(AtTemplatePath(call.resource).v)
            ELSE <<>>

\* C8 as amended: spec.containers is consulted whenever
\* spec.template.spec.containers is not a sequence, with or without a template
\* key; only a spec.template.spec.containers that is a sequence keeps the
\* containers under spec.containers from being returned.
C8_PodPathIsTheFallback ==
    (call.fn = "extractContainersFromResource" /\ ret.done) =>
        IF AtTemplatePath(call.resource).t = "seq"
        THEN ret.containers = parseContainers(AtTemplatePath(call.resource).v)
        ELSE ret.containers =
                 IF AtPodPath(call.resource).t = "seq"
                 THEN parseContainers(AtPodPath(call.resource).v)
                 ELSE <<>>

\* A template key whose value leads to no container sequence, beside a
\* spec.containers that holds a container: that container is returned.
C8_Witness ==
    /\ call.fn = "extractContainersFromResource" /\ ret.done
    /\ HasSpecKey(call.resource, "template")
    /\ AtTemplatePath(call.resource).t # "seq"
    /\ AtPodPath(call.resource).t = "seq"
    /\ ret.containers # <<>>

-----------------------------------------------------------------------------
(* Claims about RuleEngine.EvaluateResource *)

DistinctNames(seq) ==
    \A i, j \in 1..Len(seq) : seq[i].Name = seq[j].Name => i = j

\* The call identifies the rule and the container of each of its violations:
\* rule names are distinct and so are the names of the extracted containers.
Identifiable(c) ==
    /\ DistinctNames(re.config)
    /\ DistinctNames(extractContainersFromResource(c.resource))

RuleIndexOf(v) == CHOOSE i \in 1..Len(re.config) : re.config[i].Name = v.Rule

ContainerIndexOf(c, v) ==
    LET containers == extractContainersFromResource(c.resource)
    IN  CHOOSE j \in 1..Len(containers) :
            v.Message = ReplaceAll(re.config[RuleIndexOf(v)].Message, containers[j].Name)

\* C2: the violation list is ordered rule-major, container-minor: of any two
\* violations the one of the rule declared earlier comes first, and of two
\* violations of the same rule the one of the container extracted earlier.
C2_RuleMajorContainerMinor ==
    (lastCall # <<>> /\ Identifiable(lastCall[1])) =>
        LET c == lastCall[1]
            vs == c.violations
        IN  \A a, b \in 1..Len(vs) :
                a < b =>
                    \/ RuleIndexOf(vs[a]) < RuleIndexOf(vs[b])
                    \/ /\ RuleIndexOf(vs[a]) = RuleIndexOf(vs[b])
                       /\ ContainerIndexOf(c, vs[a]) < ContainerIndexOf(c, vs[b])

\* Two rules have each fired on two containers: the first rule's violation for
\* the second container precedes the second rule's for the first container.
C2_Witness ==
    /\ lastCall # <<>> /\ Identifiable(lastCall[1])
    /\ LET c == lastCall[1]
           vs == c.violations
       IN  \E a, b \in 1..Len(vs) :
               /\ a < b
               /\ RuleIndexOf(vs[a]) < RuleIndexOf(vs[b])
               /\ ContainerIndexOf(c, vs[a]) > ContainerIndexOf(c, vs[b])

-----------------------------------------------------------------------------
(* Claims about Reporter.ReportViolations *)

Severities(violations) == {violations[i].Severity : i \in 1..Len(violations)}

\* C5: ReportViolations returns ERROR (2) when some violation of the list has
\* severity ERROR, otherwise WARN (1) when some has severity WARN, otherwise
\* OK (0); the value depends on the set of severities only, not on their order.
C5_DocumentSeverity ==
    (call.fn = "ReportViolations" /\ ret.done) =>
        ret.severity = IF SeverityError \in Severities(call.violations) THEN 2
                       ELSE IF SeverityWarn \in Severities(call.violations) THEN 1
                       ELSE 0

\* A list whose ERROR violation comes after a WARN violation was reported as
\* ERROR.
C5_Witness ==
    /\ call.fn = "ReportViolations" /\ ret.done
    /\ Len(call.violations) >= 2
    /\ call.violations[1].Severity = SeverityWarn
    /\ call.violations[Len(call.violations)].Severity = SeverityError
    /\ ret.severity = 2

-----------------------------------------------------------------------------
(* Claims about main *)

SetMax(S) == CHOOSE x \in S : \A y \in S : y <= x

\* C4 as stated: whenever main has exited, the exit code is the maximum, under
\* OK(0) < WARN(1) < ERROR(2), of the severities ReportViolations returned for
\* the documents reported, 0 when none was reported.
C4_ExitCodeIsAlwaysMaxSeverity ==
    (call.fn = "main" /\ exitCode # -1) =>
        exitCode = SetMax(runLog.severities \cup {ExitOK})

\* C4, for the runs that reach the validation loop (an argument is given, the
\* rule set loads, the input is processed without error): the exit code of
\* main is the maximum, under OK(0) < WARN(1) < ERROR(2), of the severities
\* ReportViolations returned for the documents reported, 0 when none was
\* reported; it depends on the set of those severities only, so not on the
\* order of the files or of the documents in them.  The other runs, once
\* flag.Parse has returned, exit with code 2 and report no document.
C4_ExitCodeIsMaxSeverity ==
    /\ pc = "exited" => exitCode = SetMax(runLog.severities \cup {ExitOK})
    /\ pc \in {"usage", "aborted", "failed"} =>
           /\ exitCode = ExitError
           /\ runLog.severities = {}
           /\ reporter.totalFiles = 0
    /\ exitCode # -1 <=> pc \in {"usage", "aborted", "failed", "exited"}

\* A run has exited with code 2 although the document reported last had
\* severity OK.
C4_Witness ==
    /\ pc = "exited"
    /\ exitCode = ExitError
    /\ runLog.last = ExitOK
    /\ runLog.severities = {ExitOK, ExitWarn, ExitError}

\* C6: main exits with code 0 only when all checks passed: every input file
\* was parsed and no document produced a violation.
C6_ExitZeroMeansAllPassed ==
    (pc = "exited" /\ exitCode = ExitOK) =>
        /\ runLog.parseFailures = 0
        /\ reporter.totalViolations = 0

-----------------------------------------------------------------------------
(* Claims about the conditions on the container of a decoded document *)

\* The value a document holds at a path of keys, nil when a key is missing or
\* a value on the way is not a mapping.
RECURSIVE ReadPath(_, _)
ReadPath(value, path) ==
    IF path = <<>> THEN value
    ELSE IF value.t = "map" /\ Head(path) \in DOMAIN value.v
         THEN ReadPath(value.v[Head(path)], Tail(path))
         ELSE YNil

\* The field each of the four resource conditions is about.
ResourceFieldOf ==
    (Lit("missing_cpu_requests") :> <<"resources", "requests", "cpu">>)
    @@ (Lit("missing_memory_requests") :> <<"resources", "requests", "memory">>)
    @@ (Lit("missing_cpu_limits") :> <<"resources", "limits", "cpu">>)
    @@ (Lit("missing_memory_limits") :> <<"resources", "limits", "memory">>)

\* The condition was checked on the one container extracted from the document.
CheckedOnContainer ==
    /\ call.fn = "document" /\ ret.done /\ ret.fn = "checkCondition"
    /\ Len(ret.containers) = 1

\* C11: each of missing_cpu_requests, missing_memory_requests,
\* missing_cpu_limits and missing_memory_limits is true of a container exactly
\* when its field (resources.requests.cpu, resources.requests.memory,
\* resources.limits.cpu, resources.limits.memory) is absent at any level or is
\* the empty string, and false when the field is a non-empty string; a value
\* that is not a string counts as absent.
C11_MissingResourceFields ==
    (CheckedOnContainer /\ ret.condition \in DOMAIN ResourceFieldOf) =>
        LET field == ReadPath(call.element, ResourceFieldOf[ret.condition])
        IN  ret.results[1] <=> (field.t # "str" \/ field.v = <<>>)

\* missing_cpu_requests was found false on a container that has a CPU request
\* and no CPU limit.
C11_Witness ==
    /\ CheckedOnContainer
    /\ ret.condition = Lit("missing_cpu_requests")
    /\ ReadPath(call.element, <<"resources", "requests", "cpu">>) = YStr(Lit("100m"))
    /\ ReadPath(call.element, <<"resources", "limits">>).t = "nil"
    /\ ~ret.results[1]

\* The document was validated and one container was extracted from it.
ValidatedOneContainer ==
    /\ call.fn = "document" /\ ret.done /\ ret.fn = "EvaluateResource"
    /\ Len(ret.containers) = 1

\* The violations of the list that carry the name of the rule.
ViolationsOf(violations, ruleName) ==
    SelectSeq(violations, LAMBDA v : v.Rule = Lit(ruleName))

RootButNonRoot == YMap(("runAsNonRoot" :> YBool(TRUE)) @@ ("runAsUser" :> YInt(0)))

\* C12: missing_security_context is true of a container iff it has no
\* securityContext object; run_as_non_root_false iff
\* securityContext.runAsNonRoot is present and false; run_as_user_zero iff
\* securityContext.runAsUser is present and 0.  A container with
\* securityContext {runAsNonRoot: true, runAsUser: 0} gets exactly one
\* violation from no-root-containers, of severity ERROR, and on it
\* run_as_user_zero is true and run_as_non_root_false is false.
C12_SecurityContextConditions ==
    LET sc == ReadPath(call.element, <<"securityContext">>)
        nonRoot == ReadPath(call.element, <<"securityContext", "runAsNonRoot">>)
        user == ReadPath(call.element, <<"securityContext", "runAsUser">>)
    IN  /\ (CheckedOnContainer /\ ret.condition = Lit("missing_security_context")) =>
               (ret.results[1] <=> sc.t # "map")
        /\ (CheckedOnContainer /\ ret.condition = Lit("run_as_non_root_false")) =>
               (ret.results[1] <=> nonRoot = YBool(FALSE))
        /\ (CheckedOnContainer /\ ret.condition = Lit("run_as_user_zero")) =>
               (ret.results[1] <=> user = YInt(0))
        /\ (CheckedOnContainer /\ sc = RootButNonRoot) =>
               /\ ret.condition = Lit("run_as_user_zero") => ret.results[1]
               /\ ret.condition = Lit("run_as_non_root_false") => ~ret.results[1]
        /\ (ValidatedOneContainer /\ sc = RootButNonRoot) =>
               LET vs == ViolationsOf(ret.violations, "no-root-containers")
               IN  Len(vs) = 1 /\ vs[1].Severity = SeverityError

\* A container with {runAsNonRoot: true, runAsUser: 0} and nothing else amiss
\* was validated: no-root-containers is its only violation.
C12_Witness ==
    /\ ValidatedOneContainer
    /\ ReadPath(call.element, <<"securityContext">>) = RootButNonRoot
    /\ Len(ret.violations) = 1
    /\ ret.violations[1].Rule = Lit("no-root-containers")

-----------------------------------------------------------------------------
(* Claims about condition identifiers that are not supported *)

SupportedIds ==
    {Lit("image_tag_equals"), Lit("image_tag_missing"),
     Lit("missing_cpu_requests"), Lit("missing_memory_requests"),
     Lit("missing_cpu_limits"), Lit("missing_memory_limits"),
     Lit("missing_security_context"), Lit("run_as_non_root_false"),
     Lit("run_as_user_zero")}

\* The identifier of a condition expression: the text before its first colon.
ConditionIdOf(cd) ==
    IF ColonPositions(cd) = {} THEN cd
    ELSE SubSeq(cd, 1, (CHOOSE i \in ColonPositions(cd) :
                            \A j \in ColonPositions(cd) : i <= j) - 1)

AllUnrecognized(rule) ==
    \A i \in 1..Len(rule.Conditions) : ConditionIdOf(rule.Conditions[i]) \notin SupportedIds

\* C13: a condition whose identifier is not one of the nine supported ones is
\* false of every container; a rule all of whose conditions are unrecognized
\* yields no violation, and the violations of the resource are those of the
\* other rules of the rule set, in their order.
C13_UnrecognizedIsFalse ==
    /\ (call.fn = "document" /\ ret.done /\ ret.fn = "checkCondition"
        /\ ConditionIdOf(ret.condition) \notin SupportedIds) =>
           \A j \in 1..Len(ret.results) : ~ret.results[j]
    /\ (call.fn = "document" /\ ret.done /\ ret.fn = "EvaluateResource") =>
           LET others == SelectSeq(re.config, LAMBDA rule : ~AllUnrecognized(rule))
           IN  /\ \A i \in 1..Len(re.config) :
                      AllUnrecognized(re.config[i]) =>
                          \A k \in 1..Len(ret.violations) :
                              ret.violations[k].Rule # re.config[i].Name
               /\ ret.violations = evaluateRules(others, ret.containers, 1)

\* A rule set with an unrecognized rule between two default rules was run on
\* a container that breaks both: the violations are those two, in order.
C13_Witness ==
    /\ call.fn = "document" /\ ret.done /\ ret.fn = "EvaluateResource"
    /\ \E i \in 1..Len(re.config) : AllUnrecognized(re.config[i])
    /\ Len(ret.violations) = 2
    /\ ret.violations[1].Rule = Lit("no-latest-image")
    /\ ret.violations[2].Rule = Lit("no-root-containers")

-----------------------------------------------------------------------------
(* Claims about the default rule set and its selection by main *)

RuleSummary(rule) ==
    [name |-> rule.Name, severity |-> rule.Severity, conditions |-> rule.Conditions]

\* The four default rules, by name, severity and conditions.
DefaultRulesSummary ==
    <<[name       |-> Lit("no-latest-image"),
       severity   |-> Lit("ERROR"),
       conditions |-> <<<<"image_tag_equals", ":", "latest">>, <<"image_tag_missing">>>>],
      [name       |-> Lit("require-resource-requests"),
       severity   |-> Lit("WARN"),
       conditions |-> <<<<"missing_cpu_requests">>, <<"missing_memory_requests">>>>],
      [name       |-> Lit("require-resource-limits"),
       severity   |-> Lit("WARN"),
       conditions |-> <<<<"missing_cpu_limits">>, <<"missing_memory_limits">>>>],
      [name       |-> Lit("no-root-containers"),
       severity   |-> Lit("ERROR"),
       conditions |-> <<<<"missing_security_context">>, <<"run_as_non_root_false">>,
                        <<"run_as_user_zero">>>>]>>

\* No rule file was named with --config and none exists at a default location.
NoExternalRuleSet == call.configFile = <<>> /\ call.existing = {}

\* C14: when no external rule set is supplied or found, main makes the engine
\* from GetDefaultConfig, which holds exactly four rules: no-latest-image
\* (ERROR; image_tag_equals:latest, image_tag_missing),
\* require-resource-requests (WARN; missing_cpu_requests,
\* missing_memory_requests), require-resource-limits (WARN; missing_cpu_limits,
\* missing_memory_limits), no-root-containers (ERROR; missing_security_context,
\* run_as_non_root_false, run_as_user_zero), in this order.  The built-in
\* rules are chosen in no other case.
C14_DefaultRuleSet ==
    (call.fn = "main" /\ ret.done) =>
        /\ NoExternalRuleSet =>
               /\ pc = "input"
               /\ Len(re.config) = 4
               /\ [i \in 1..Len(re.config) |-> RuleSummary(re.config[i])] = DefaultRulesSummary
        /\ ret.source = "builtin" <=> NoExternalRuleSet

\* main has chosen the built-in rules.
C14_Witness ==
    /\ call.fn = "main" /\ pc = "input"
    /\ NoExternalRuleSet
    /\ ret.done /\ ret.source = "builtin"
    /\ Len(re.config) = 4

-----------------------------------------------------------------------------
(* Claims about the default rules on a document *)

\* The text occurs in the string.
Contains(s, text) ==
    \E i \in 1..(Len(s) - Len(text) + 1) : SubSeq(s, i, i + Len(text) - 1) = text

\* Some violation of the list comes from the rule, with the severity, and has
\* the container name in its message.
HasViolation(violations, ruleName, severity, containerName) ==
    \E k \in 1..Len(violations) :
        /\ violations[k].Rule = Lit(ruleName)
        /\ violations[k].Severity = severity
        /\ Contains(violations[k].Message, containerName)

\* The document was validated under the default rule set.
ValidatedUnderDefaults ==
    ValidatedOneContainer /\ re.config = GetDefaultConfig

\* The element gives a name and an image without tag, and nothing else.
IsBareElement(element) ==
    /\ DOMAIN element.v = {"name", "image"}
    /\ element.v["name"].t = "str" /\ element.v["name"].v # <<>>
    /\ element.v["image"].t = "str" /\ ColonPositions(element.v["image"].v) = {}

\* C15: under the default rule set a Deployment whose
\* spec.template.spec.containers holds one container with a name and an image
\* without tag, no resources and no securityContext (as {name: nginx, image:
\* nginx}) yields an ERROR violation from no-latest-image, an ERROR violation
\* from no-root-containers, a WARN violation from require-resource-requests
\* and one from require-resource-limits, each with the container name in its
\* message, and the severity of the document is ERROR.
C15_BareContainerUnderDefaults ==
    (ValidatedUnderDefaults /\ call.kind = "Deployment" /\ IsBareElement(call.element)) =>
        LET name == call.element.v["name"].v
        IN  /\ HasViolation(ret.violations, "no-latest-image", SeverityError, name)
            /\ HasViolation(ret.violations, "no-root-containers", SeverityError, name)
            /\ HasViolation(ret.violations, "require-resource-requests", SeverityWarn, name)
            /\ HasViolation(ret.violations, "require-resource-limits", SeverityWarn, name)
            /\ ret.severity = ExitError

\* The Deployment with {name: nginx, image: nginx} was validated under the
\* default rules and got four violations.
C15_Witness ==
    /\ ValidatedUnderDefaults
    /\ call.resource = DeploymentOf(<<BareNginx>>)
    /\ Len(ret.violations) = 4
    /\ reporter.errorFiles = 1

NonEmptyString(value) == value.t = "str" /\ value.v # <<>>

\* The element has an image with a tag other than latest, the securityContext
\* {runAsNonRoot: true}, and non-empty cpu and memory requests and limits.
IsHardenedElement(element) ==
    /\ element.v["image"].t = "str"
    /\ Cardinality(ColonPositions(element.v["image"].v)) = 1
    /\ element.v["image"].v[Len(element.v["image"].v)] \notin {Colon, "latest"}
    /\ ReadPath(element, <<"securityContext">>) = YMap("runAsNonRoot" :> YBool(TRUE))
    /\ NonEmptyString(ReadPath(element, <<"resources", "requests", "cpu">>))
    /\ NonEmptyString(ReadPath(element, <<"resources", "requests", "memory">>))
    /\ NonEmptyString(ReadPath(element, <<"resources", "limits", "cpu">>))
    /\ NonEmptyString(ReadPath(element, <<"resources", "limits", "memory">>))

\* C16: under the default rule set a container with image nginx:1.21,
\* securityContext {runAsNonRoot: true} and non-empty cpu and memory under
\* both resources.requests and resources.limits yields no violation, and the
\* severity of its document is OK.
C16_HardenedContainerPasses ==
    (ValidatedUnderDefaults /\ IsHardenedElement(call.element)) =>
        /\ ret.violations = <<>>
        /\ ret.severity = ExitOK

\* The Deployment with the hardened nginx:1.21 container was validated under
\* the default rules and counted as an OK file.
C16_Witness ==
    /\ ValidatedUnderDefaults
    /\ call.resource = DeploymentOf(<<HardenedNginx>>)
    /\ ret.violations = <<>>
    /\ reporter.okFiles = 1

\* The securityContext of the element and its two fields are absent or of
\* the type Kubernetes gives them.
WellTypedSecurityContext(element) ==
    /\ ReadPath(element, <<"securityContext">>).t \in {"nil", "map"}
    /\ ReadPath(element, <<"securityContext", "runAsNonRoot">>).t \in {"nil", "bool"}
    /\ ReadPath(element, <<"securityContext", "runAsUser">>).t \in {"nil", "int"}

\* C17: under the default rules no-root-containers enforces runAsNonRoot:
\* true: every container whose securityContext does not set runAsNonRoot to
\* true, one with a securityContext that leaves runAsNonRoot unset ({} or
\* {runAsUser: 1000}) included, gets an ERROR violation from
\* no-root-containers.
C17_DefaultsEnforceRunAsNonRoot ==
    (ValidatedUnderDefaults /\ WellTypedSecurityContext(call.element)
     /\ ReadPath(call.element, <<"securityContext", "runAsNonRoot">>) # YBool(TRUE)) =>
        HasViolation(ret.violations, "no-root-containers", SeverityError,
                     call.element.v["name"].v)

-----------------------------------------------------------------------------
(* Claims about the workload kinds *)

\* C18: the containers of every supported workload kind are extracted and
\* validated, CronJob included: extraction returns the containers of the pod
\* template, which a CronJob holds under
\* spec.jobTemplate.spec.template.spec.containers, and a container of it whose
\* image has the tag latest gets an ERROR violation from no-latest-image.
C18_CronJobContainersValidated ==
    (call.fn = "document" /\ ret.done /\ call.kind \in DocKinds) =>
        /\ ret.containers = parseContainers(<<call.element>>)
        /\ (ret.fn = "EvaluateResource"
            /\ call.element.v["image"] = YStr(<<"nginx", Colon, "latest">>)) =>
               HasViolation(ret.violations, "no-latest-image", SeverityError,
                            call.element.v["name"].v)

-----------------------------------------------------------------------------
(* Claims about malformed documents *)

\* The container list extraction reads: spec.template.spec.containers when
\* that is a sequence, else spec.containers when that is one, else nothing.
ListRead(resource) ==
    IF AtTemplatePath(resource).t = "seq" THEN AtTemplatePath(resource).v
    ELSE IF AtPodPath(resource).t = "seq" THEN AtPodPath(resource).v
    ELSE <<>>

\* Every field of the container that the element does not give with the
\* right type is absent from the container: "" for a string, nil for a pointer.
MistypedIsAbsent(e, c) ==
    LET res == ReadPath(e, <<"resources">>)
        sec == ReadPath(e, <<"securityContext">>)
        SpecAbsent(key, ptr) ==
            IF ReadPath(res, <<key>>).t # "map" THEN ptr = NilPtr
            ELSE /\ ptr # NilPtr
                 /\ ReadPath(res, <<key, "cpu">>).t # "str" => Deref(ptr).CPU = <<>>
                 /\ ReadPath(res, <<key, "memory">>).t # "str" => Deref(ptr).Memory = <<>>
    IN  /\ ReadPath(e, <<"name">>).t # "str" => c.Name = <<>>
        /\ ReadPath(e, <<"image">>).t # "str" => c.Image = <<>>
        /\ IF res.t # "map" THEN c.Resources = NilPtr
           ELSE /\ c.Resources # NilPtr
                /\ SpecAbsent("requests", Deref(c.Resources).Requests)
                /\ SpecAbsent("limits", Deref(c.Resources).Limits)
        /\ IF sec.t # "map" THEN c.SecurityContext = NilPtr
           ELSE /\ c.SecurityContext # NilPtr
                /\ ReadPath(sec, <<"runAsNonRoot">>).t # "bool" =>
                       Deref(c.SecurityContext).RunAsNonRoot = NilPtr
                /\ ReadPath(sec, <<"runAsUser">>).t # "int" =>
                       Deref(c.SecurityContext).RunAsUser = NilPtr

\* C19: extractContainersFromResource returns a list for every resource: the
\* empty list for a nil spec or when no container list is found on either
\* path, a value of the wrong type on the way counting as absent; otherwise
\* one container per element that is a mapping, in which every field of the
\* wrong type (name, image, resources, requests, limits, cpu, memory,
\* securityContext, runAsNonRoot, runAsUser) is absent: the empty string or nil.
C19_ExtractionIsTotal ==
    (call.fn = "extractContainersFromResource" /\ ret.done) =>
        LET from == MapElements(ListRead(call.resource))
        IN  /\ DOMAIN ret.containers = 1..Len(from)
            /\ call.resource.Spec.t = "nil" => ret.containers = <<>>
            /\ \A i \in 1..Len(from) : MistypedIsAbsent(from[i], ret.containers[i])

\* A list with an element that is no mapping and an element all of whose
\* fields have the wrong type: one container, with no name, no image, no
\* resources and no securityContext.
C19_Witness ==
    /\ call.fn = "extractContainersFromResource" /\ ret.done
    /\ Len(ListRead(call.resource)) = 2
    /\ ListRead(call.resource)[1].t = "str"
    /\ ListRead(call.resource)[2] = RawMistyped
    /\ ret.containers = <<[Name |-> <<>>, Image |-> <<>>,
                           Resources |-> NilPtr, SecurityContext |-> NilPtr]>>

-----------------------------------------------------------------------------
(* Claims about an engine without rules *)

\* C20: with an empty rule set EvaluateResource returns the empty violation
\* list for every resource, whatever containers it has.
C20_NoRulesNoViolations ==
    (lastCall # <<>> /\ re.config = <<>>) => lastCall[1].violations = <<>>

\* An engine without rules has evaluated a resource with two containers that
\* break the default rules.
C20_Witness ==
    /\ lastCall # <<>> /\ re.config = <<>>
    /\ extractContainersFromResource(lastCall[1].resource)
           = parseContainers(<<RawBare, RawLatestRoot>>)
    /\ EvaluateResource(NewRuleEngine(GetDefaultConfig), lastCall[1].resource) # <<>>
    /\ lastCall[1].violations = <<>>

-----------------------------------------------------------------------------
(* Claims about the fields of a violation *)

\* The number of tokens the text before position i of the template takes in
\* the message, when every placeholder is replaced by the name.
OffsetIn(template, name, i) ==
    (i - 1) + Cardinality({k \in 1..(i - 1) : template[k] = Placeholder}) * (Len(name) - 1)

\* The message is the template with each placeholder replaced by the name.
IsSubstituted(message, template, name) ==
    /\ Len(message) = OffsetIn(template, name, Len(template) + 1)
    /\ \A i \in 1..Len(template) :
           LET at == OffsetIn(template, name, i)
           IN  IF template[i] = Placeholder
               THEN SubSeq(message, at + 1, at + Len(name)) = name
               ELSE message[at + 1] = template[i]

\* C21: the message of every violation evaluateRule emits is the message
\* template of the rule with every occurrence of {container} replaced by the
\* name of the container, the empty string when the container has no name;
\* its severity and its rule are the severity and the name of the rule.
C21_ViolationFields ==
    (call.fn = "evaluateRule" /\ ret.done) =>
        \A k \in 1..Len(ret.violations) :
            /\ IsSubstituted(ret.violations[k].Message, call.rule.Message, call.container.Name)
            /\ ret.violations[k].Severity = call.rule.Severity
            /\ ret.violations[k].Rule = call.rule.Name

\* A rule whose template names the container twice has fired on a container
\* without name: both occurrences are gone from the message.
C21_Witness ==
    /\ call.fn = "evaluateRule" /\ ret.done
    /\ Cardinality({i \in 1..Len(call.rule.Message) : call.rule.Message[i] = Placeholder}) = 2
    /\ call.container.Name = <<>>
    /\ Len(ret.violations) = 1
    /\ Len(ret.violations[1].Message) = 2

-----------------------------------------------------------------------------
(* Claims about the selection of the rule file *)

\* C22: the rule set is selected by a fixed priority: the file given with
\* --config, and then no default location is consulted; otherwise the first
\* that exists of ./kubecheck.yaml, ./kubecheck.yml, ~/.kubecheck/config.yaml,
\* ~/.kubecheck/config.yml, in this order, the later ones being ignored; the
\* built-in rules only when none of the four exists.
C22_RuleFilePriority ==
    (call.fn = "main" /\ pc \notin {"config", "usage"}) =>
        /\ ret.done
        /\ IF call.configFile # <<>>
           THEN ret.source = "flag" /\ ret.path = 0
           ELSE IF call.existing # {}
                THEN /\ ret.source = "path"
                     /\ ret.path \in call.existing
                     /\ \A q \in call.existing : ret.path <= q
                ELSE ret.source = "builtin" /\ ret.path = 0

\* Without --config, with no ./kubecheck.yaml and files at ./kubecheck.yml and
\* at ~/.kubecheck/config.yml: the rules come from ./kubecheck.yml.
C22_Witness ==
    /\ call.fn = "main" /\ pc = "input"
    /\ call.configFile = <<>>
    /\ call.existing = {2, 4}
    /\ ret.source = "path" /\ ret.path = 2

\* C23: a rule file that cannot be read or parsed is fatal: when the selected
\* file (the one given with --config, or the first existing default location)
\* fails to load, main exits with code 2; no engine is made from another
\* location or from the built-in rules, and nothing has been evaluated or
\* reported.  main exits at this point in no other case.
C23_ConfigErrorIsFatal ==
    (call.fn = "main" /\ ret.done) =>
        /\ ret.err =>
               /\ pc = "aborted"
               /\ exitCode = ExitError
               /\ re = [config |-> <<>>]
               /\ lastCall = <<>>
               /\ reporter.totalFiles = 0
        /\ pc = "aborted" => ret.err

\* The file at ./kubecheck.yaml failed to load while ~/.kubecheck/config.yaml
\* exists: the run is over with code 2.
C23_Witness ==
    /\ call.fn = "main" /\ pc = "aborted"
    /\ call.configFile = <<>>
    /\ call.existing = {1, 3}
    /\ ret.path = 1 /\ ret.err
    /\ exitCode = ExitError

-----------------------------------------------------------------------------
(* Claims about the documents of a file *)

\* The resources of the documents of the file that decode and have a kind, in
\* the order of the file.
RECURSIVE KeptResources(_)
KeptResources(docs) ==
    IF docs = <<>> THEN <<>>
    ELSE (IF Head(docs).decodes /\ Head(docs).resource.Kind # <<>>
          THEN <<Head(docs).resource>> ELSE <<>>) \o KeptResources(Tail(docs))

\* C24: a document that cannot be decoded is skipped alone: every other
\* document of the batch, the other documents of the same file included, is
\* evaluated and reported.
C24_DecodeErrorIsLocal ==
    (call.fn = "main" /\ pc = "exited" /\ call.file.readable) =>
        reporter.totalFiles = Len(KeptResources(call.file.docs))

\* C25: every resource handed to EvaluateResource and ReportViolations has a
\* non-empty kind: the resources main loops over are the documents of the
\* file without those whose kind is empty, in the order of the file.
C25_OnlyResourcesWithKind ==
    (call.fn = "main" /\ pc = "resources") =>
        /\ resources = KeptResources(call.file.docs)
        /\ \A i \in 1..Len(resources) : resources[i].Kind # <<>>

\* A file with an empty document between a failing and a passing one has been
\* parsed and its first resource validated: the two resources are kept in
\* order.
C25_Witness ==
    /\ call.fn = "main" /\ pc = "resources"
    /\ call.file = FileOf(<<FailingDoc, EmptyDoc, PassingDoc>>)
    /\ resources = <<FailingDoc.resource, PassingDoc.resource>>
    /\ docIdx = 2
    /\ reporter.totalFiles = 1

-----------------------------------------------------------------------------
(* Claims about the summary *)

\* The file was read, all its documents decoded and at least one has a kind.
FileWasValidated ==
    /\ call.file.readable
    /\ \A i \in 1..Len(call.file.docs) : call.file.docs[i].decodes
    /\ KeptResources(call.file.docs) # <<>>

\* C27: the number PrintSummary prints as files checked is the number of
\* input files validated in the run: a file counts once, however many
\* documents it holds.
C27_FilesCheckedCountsFiles ==
    (call.fn = "main" /\ pc = "exited" /\ FileWasValidated) =>
        /\ runLog.summary # <<>>
        /\ runLog.summary[1].filesChecked = nFiles

-----------------------------------------------------------------------------
(* Claims about the counters of the reporter *)

\* C28: after any sequence of ReportViolations calls, for violations of rule
\* sets LoadRuleConfig accepts, totalFiles = okFiles + warnFiles + errorFiles
\* (each call increments exactly one of the three), and totalViolations is
\* the number of violations passed in.
C28_CountersAddUp ==
    call.fn = "ReportViolations" =>
        /\ reporter.totalFiles = reporter.okFiles + reporter.warnFiles + reporter.errorFiles
        /\ reporter.totalFiles = 1 => reporter.totalViolations = Len(call.violations)

-----------------------------------------------------------------------------
(* Claims about the exit code and the violations reported *)

\* C30: for every rule set LoadRuleConfig accepts, a document with at least
\* one violation never gets document severity OK, so a run in which a
\* violation was reported exits with a code other than 0.
C30_ViolationsFailTheRun ==
    (call.fn = "main" /\ pc = "exited" /\ reporter.totalViolations > 0) =>
        exitCode # ExitOK


\* C29: in directory mode, when at least one document was reported, the exit
\* code in the status line PrintSummary prints (2 if errorFiles > 0, else 1 if
\* warnFiles > 0, else 0) equals the code main exits with.
C29_PrintedExitCodeIsActual ==
    (call.fn = "main" /\ pc = "exited" /\ reporter.isDirectory /\ reporter.totalFiles > 0) =>
        /\ Len(runLog.summary) = 1
        /\ runLog.summary[1].mode = "directory"
        /\ runLog.summary[1].exitCode = exitCode

\* A directory run with both a warning document and an error document has
\* exited with the error code.
C29_Witness ==
    /\ call.fn = "main"
    /\ pc = "exited"
    /\ reporter.isDirectory
    /\ reporter.warnFiles > 0
    /\ reporter.errorFiles > 0
    /\ exitCode = ExitError


-----------------------------------------------------------------------------
(* Specification of concurrent RuleEngine.EvaluateResource calls: one        *)
(* goroutine per document, all on one RuleEngine. A step is one statement of *)
(* EvaluateResource; its locals (containers, the loop indexes, violations)   *)
(* are the goroutine's own, re.config is read at every iteration.            *)

MaxEvaluations == 2

ConcConfigs ==
    {GetDefaultConfig,
     <<GetDefaultConfig[1], GetDefaultConfig[2]>>,
     <<MkRule("r", SeverityWarn, <<Lit("image_tag_missing")>>, <<Placeholder, "!", Placeholder>>)>>}

ConcResources ==
    {MkResource("ConfigMap", YNil),
     DeploymentOf(<<RawBare, RawLatestRoot>>),
     PodOf(<<RawClean, RawBare>>)}

\* The locals of a call of EvaluateResource(resource) that has not run yet.
NewEvaluation(resource) ==
    [resource     |-> resource,
     pc           |-> "called",
     containers   |-> <<>>,
     nRules       |-> 0,
     ruleIdx      |-> 0,
     containerIdx |-> 0,
     violations   |-> <<>>]

InitConc ==
    /\ call \in {[fn |-> "go EvaluateResource", config |-> cfg, resources |-> rs] :
                     cfg \in ConcConfigs, rs \in [1..MaxEvaluations -> ConcResources]}
    /\ ret = NotDone
    /\ re = NewRuleEngine(call.config)
    /\ evals = [w \in 1..MaxEvaluations |-> NewEvaluation(call.resources[w])]
    /\ firstCall = <<>> /\ lastCall = <<>> /\ interleaved = FALSE
    /\ ReporterIdle /\ MainIdle

\* Another goroutine is inside the loops of EvaluateResource.
OthersRunning(w) == \E v \in DOMAIN evals : v # w /\ evals[v].pc = "loop"

\* var violations; containers := extractContainersFromResource(resource);
\* the range expression re.config.Rules is evaluated once.
BeginEvaluate(w) ==
    /\ w \in DOMAIN evals
    /\ evals[w].pc = "called"
    /\ evals' = [evals EXCEPT ![w] =
                    [@ EXCEPT !.pc = "loop",
                              !.containers = extractContainersFromResource(evals[w].resource),
                              !.nRules = Len(re.config),
                              !.ruleIdx = 1,
                              !.containerIdx = 1]]
    /\ interleaved' = (interleaved \/ OthersRunning(w))
    /\ UNCHANGED <<call, ret, re, firstCall, lastCall, reporter, mainVars>>

\* The position of the loops after the iteration at (ruleIdx, containerIdx).
NextIteration(e) ==
    IF e.containerIdx < Len(e.containers)
    THEN [e EXCEPT !.containerIdx = @ + 1]
    ELSE [e EXCEPT !.ruleIdx = @ + 1, !.containerIdx = 1]

\* Variant: evaluateRule substitutes the container name into the message of
\* the engine's rule instead of a copy.
EvaluateIterationInPlace(w) ==
    LET e == evals[w]
        rule == re.config[e.ruleIdx]
        found == evaluateRule(rule, e.containers[e.containerIdx])
    IN  /\ w \in DOMAIN evals
        /\ e.pc = "loop"
        /\ e.ruleIdx <= e.nRules
        /\ e.containers # <<>>
        /\ evals' = [evals EXCEPT ![w] =
                        [NextIteration(e) EXCEPT !.violations = e.violations \o found]]
        /\ re' = IF found = <<>> THEN re
                 ELSE [re EXCEPT !.config[e.ruleIdx].Message = found[1].Message]
        /\ interleaved' = (interleaved \/ OthersRunning(w))
        /\ UNCHANGED <<call, ret, firstCall, lastCall, reporter, mainVars>>

\* Variant: a rule that has produced a violation is marked as reported in the
\* engine, by emptying its conditions, so that it is reported once.
EvaluateIterationReportingOnce(w) ==
    LET e == evals[w]
        rule == re.config[e.ruleIdx]
        found == evaluateRule(rule, e.containers[e.containerIdx])
    IN  /\ w \in DOMAIN evals
        /\ e.pc = "loop"
        /\ e.ruleIdx <= e.nRules
        /\ e.containers # <<>>
        /\ evals' = [evals EXCEPT ![w] =
                        [NextIteration(e) EXCEPT !.violations = e.violations \o found]]
        /\ re' = IF found = <<>> THEN re
                 ELSE [re EXCEPT !.config[e.ruleIdx].Conditions = <<>>]
        /\ interleaved' = (interleaved \/ OthersRunning(w))
        /\ UNCHANGED <<call, ret, firstCall, lastCall, reporter, mainVars>>

\* One iteration of the inner loop: evaluateRule(rule, container) on the
\* rule read from the engine, appended to the goroutine's own violations.
EvaluateIteration(w) ==
    LET e == evals[w]
        rule == re.config[e.ruleIdx]
        found == evaluateRule(rule, e.containers[e.containerIdx])
    IN  /\ w \in DOMAIN evals
        /\ e.pc = "loop"
        /\ e.ruleIdx <= e.nRules
        /\ e.containers # <<>>
        /\ evals' = [evals EXCEPT ![w] =
                        [NextIteration(e) EXCEPT !.violations = e.violations \o found]]
        /\ interleaved' = (interleaved \/ OthersRunning(w))
        /\ UNCHANGED <<call, ret, re, firstCall, lastCall, reporter, mainVars>>

\* return violations: the loops have ended (at once when there are no
\* containers or no rules).
ReturnViolations(w) ==
    /\ w \in DOMAIN evals
    /\ evals[w].pc = "loop"
    /\ evals[w].ruleIdx > evals[w].nRules \/ evals[w].containers = <<>>
    /\ evals' = [evals EXCEPT ![w].pc = "returned"]
    /\ interleaved' = (interleaved \/ OthersRunning(w))
    /\ UNCHANGED <<call, ret, re, firstCall, lastCall, reporter, mainVars>>

NextConc ==
    \E w \in 1..MaxEvaluations :
        BeginEvaluate(w) \/ EvaluateIteration(w) \/ ReturnViolations(w)

SpecConc == InitConc /\ [][NextConc]_vars

\* C26: while several documents are evaluated concurrently on one RuleEngine,
\* the engine's rule set and every document stay as they were given, and every
\* evaluation that has returned has returned the violation list a sequential
\* EvaluateResource of its document returns, whatever the interleaving.
C26_ConcurrentEvaluationIsSequential ==
    call.fn = "go EvaluateResource" =>
        /\ re = NewRuleEngine(call.config)
        /\ \A w \in DOMAIN evals :
               /\ evals[w].resource = call.resources[w]
               /\ evals[w].pc = "returned" =>
                      evals[w].violations
                          = EvaluateResource(NewRuleEngine(call.config), call.resources[w])

\* Evaluations of two different documents ran interleaved and all have
\* returned, the first two with different, non-empty violation lists.
C26_Witness ==
    /\ call.fn = "go EvaluateResource"
    /\ interleaved
    /\ \A w \in DOMAIN evals : evals[w].pc = "returned"
    /\ evals[1].violations # <<>>
    /\ evals[2].violations # <<>>
    /\ evals[1].violations # evals[2].violations

-----------------------------------------------------------------------------
(* Specification of a history of RuleEngine.EvaluateResource calls on one    *)
(* engine: one call after the other, each stepping through the statements of *)
(* EvaluateResource and reading re.config at every iteration.                *)

MaxCalls == 3

InitHistory ==
    /\ call \in {[fn |-> "EvaluateResource calls", config |-> cfg] : cfg \in ConcConfigs}
    /\ ret = NotDone
    /\ re = NewRuleEngine(call.config)
    /\ evals = <<>>
    /\ firstCall = <<>> /\ lastCall = <<>> /\ interleaved = FALSE
    /\ ReporterIdle /\ MainIdle

\* The caller calls re.EvaluateResource(resource) once the call before it has
\* returned.
EnterEvaluateResource(resource) ==
    /\ Len(evals) < MaxCalls
    /\ \A w \in DOMAIN evals : evals[w].pc = "returned"
    /\ evals' = Append(evals, NewEvaluation(resource))
    /\ UNCHANGED <<call, ret, re, firstCall, lastCall, interleaved, reporter, mainVars>>

NextHistory ==
    \/ \E resource \in ConcResources : EnterEvaluateResource(resource)
    \/ \E w \in 1..MaxCalls :
           BeginEvaluate(w) \/ EvaluateIteration(w) \/ ReturnViolations(w)

SpecHistory == InitHistory /\ [][NextHistory]_vars

\* C3: EvaluateResource is deterministic and history-independent: in any
\* history of calls on one engine the rule set stays the one the engine was
\* made with, two calls on the same resource return the same violation list
\* (same elements, same order) whatever was evaluated before or between them,
\* and that list is the one the resource and the rule set determine.
C3_HistoryIndependent ==
    call.fn = "EvaluateResource calls" =>
        /\ re = NewRuleEngine(call.config)
        /\ \A a, b \in DOMAIN evals :
               (/\ evals[a].pc = "returned"
                /\ evals[b].pc = "returned"
                /\ evals[a].resource = evals[b].resource) =>
                   evals[a].violations = evals[b].violations
        /\ \A a \in DOMAIN evals :
               evals[a].pc = "returned" =>
                   evals[a].violations
                       = EvaluateResource(NewRuleEngine(call.config), evals[a].resource)

\* A resource with violations on two containers was evaluated, then another
\* resource with violations, then the first one again.
C3_Witness ==
    /\ call.fn = "EvaluateResource calls"
    /\ Len(evals) = 3
    /\ \A w \in DOMAIN evals : evals[w].pc = "returned"
    /\ evals[3].resource = evals[1].resource
    /\ evals[2].resource # evals[1].resource
    /\ Len(evals[1].violations) >= 2
    /\ evals[2].violations # <<>>
    /\ evals[2].violations # evals[1].violations

====
